---------------------------- MODULE Spec2Model ----------------------------
(***************************************************************************)
(* A model of the transcript library of youtube-transcript-mcp:            *)
(*   - src/transcript_lib.py      format_timestamp, format_transcript_text *)
(*   - src/transcript_segment.py  timestamp_to_seconds,                    *)
(*                                seconds_to_timestamp,                    *)
(*                                find_transcript_segment,                 *)
(*                                extract_transcript_segment,              *)
(*                                find_claim_in_transcript                 *)
(*   - src/search_api.py          SearchAPIClient                          *)
(*   - src/transcript_mcp.py      get_search_client,                       *)
(*                                search_for_claim_verification            *)
(*                                                                         *)
(* Times are Python floats in the source.  The model counts time in ticks  *)
(* of half a second, so that fractional start times (chapter starts come   *)
(* from milliseconds / 1000, cue starts from the caption track) and the    *)
(* truncations int(x) the code applies to them are both represented.       *)
(* Strings are sequences of one-character strings.                        *)
(***************************************************************************)
EXTENDS Integers, Sequences, FiniteSets, TLC

VARIABLES
    op,                 \* which operation this behaviour runs
    pc,                 \* position inside the running operation
    \* ---- format_transcript_text(transcript, chapters)
    transcript,         \* the cue list passed in
    chapters,           \* the caller's chapter list object (sorted in place)
    chapters_at_call,   \* the caller's chapter list as it was when passed
    idx,                \* number of cues the for loop has consumed
    window_first,       \* history: position of the current window's first cue
    merged_segments,
    current_text,
    current_start,
    current_duration,
    next_chapter_index, \* 0-based, as in the source
    chapter_lines,
    result,             \* the returned lines, before "\n".join
    \* ---- the timestamp codec
    seconds_in,         \* the whole seconds given to a formatter
    timestamp,          \* a clock string: formatter output, parser input
    parsed,             \* what timestamp_to_seconds returned
    \* ---- find_transcript_segment / extract_transcript_segment
    cues,               \* the full caption track
    target_time,
    context_seconds,
    segment,            \* the cues selected around target_time
    fetches,            \* the calls made to the outside, in order
    metadata,
    video_chapters,     \* what get_chapter_markers returned (<<>> for None)
    current_chapter,
    response,           \* the dict extract_transcript_segment returns
    \* ---- find_claim_in_transcript(cues, claim, fuzzy_match)
    claim,
    fuzzy_match,
    normalized_claim,
    claim_words,
    best_match,
    best_match_score,
    scan,               \* number of cues the running for loop has consumed
    scored,             \* history: number of cues the fuzzy step has scored
    claim_match,        \* what find_claim_in_transcript returned
    \* ---- search_api.SearchAPIClient and the search tool of transcript_mcp
    env_key,            \* os.environ.get("SEARCH_API_KEY")
    config_key,         \* config.SEARCH_API_KEY (CONFIG_API_KEY)
    search_client,      \* the client object in use
    constructed,        \* history: the SearchAPIClient objects made, in order
    calls,              \* history: the calls of get_search_client, in order
    query,              \* the query of the search call in hand
    num_results,
    search_context,     \* the context argument ("" for None)
    http_requests,      \* the queries posted to the search endpoint
    search_calls,       \* history: number of calls of SearchAPIClient.search
    search_result,      \* what SearchAPIClient.search returned
    formatted_results,  \* what search_for_claim_verification returned
    tool_output,        \* the string the MCP tool returned
    \* ---- identify_speakers(cues, hints)
    hints,              \* the caller's name hints, in order
    labeled_cues,       \* the cues classified so far, labels added
    speakers,           \* the speaker-occurrence mapping
    matched_by          \* history: the pattern each cue was classified by

reflowVars == <<transcript, chapters, chapters_at_call, idx, window_first,
                merged_segments,
                current_text, current_start, current_duration,
                next_chapter_index, chapter_lines, result>>

codecVars == <<seconds_in, timestamp, parsed>>

locatorVars == <<cues, target_time, context_seconds, segment, fetches,
                 metadata, video_chapters, current_chapter, response>>

claimVars == <<claim, fuzzy_match, normalized_claim, claim_words, best_match,
               best_match_score, scan, scored, claim_match>>

clientVars == <<constructed, calls>>

searchVars == <<env_key, config_key, search_client, clientVars, query,
                num_results, search_context, http_requests, search_calls,
                search_result, formatted_results, tool_output>>

speakerVars == <<hints, labeled_cues, speakers, matched_by>>

vars == <<op, pc, reflowVars, codecVars, locatorVars, claimVars, searchVars,
          speakerVars>>

---------------------------------------------------------------------------
(* Bounds of the model.                                                    *)
MaxCues == 3
MaxChapters == 2
\* Seconds tried on each side of a boundary of the clock formats.
CodecSpan == 2
\* Longest clock string handed to the parser as it stands.
MaxClockLen == 7
\* Longest caption track handed to the segment locator.
MaxFindCues == 2

---------------------------------------------------------------------------
(* Time and strings.                                                       *)

\* n whole seconds, in ticks.
Sec(n) == 2 * n

\* int(t) of a non-negative float t given in ticks: whole seconds.
IntSec(t) == t \div 2

DigitChars == <<"0", "1", "2", "3", "4", "5", "6", "7", "8", "9">>

RECURSIVE DecimalDigits(_)
\* str(n) for n >= 0
DecimalDigits(n) ==
    IF n < 10 THEN <<DigitChars[n + 1]>>
    ELSE DecimalDigits(n \div 10) \o <<DigitChars[(n % 10) + 1]>>

RECURSIVE ZeroFill(_, _)
ZeroFill(s, w) == IF Len(s) >= w THEN s ELSE ZeroFill(<<"0">> \o s, w)

\* f"{n:0wd}" for n >= 0: at least w digits, zero-padded on the left.
FormatD(n, w) == ZeroFill(DecimalDigits(n), w)

\* transcript_lib.format_timestamp(seconds), the argument given in ticks.
format_timestamp(t) ==
    LET seconds == IntSec(t) IN
    IF seconds < 3600
    THEN FormatD(seconds \div 60, 2) \o <<":">> \o FormatD(seconds % 60, 2)
    ELSE FormatD(seconds \div 3600, 2) \o <<":">>
         \o FormatD((seconds % 3600) \div 60, 2) \o <<":">>
         \o FormatD(seconds % 60, 2)

\* Mutant: the minutes of the hour form are not padded.
seconds_to_timestamp_MinutesUnpadded(seconds) ==
    IF seconds < 3600
    THEN FormatD(seconds \div 60, 1) \o <<":">> \o FormatD(seconds % 60, 2)
    ELSE FormatD(seconds \div 3600, 1) \o <<":">>
         \o FormatD((seconds % 3600) \div 60, 1) \o <<":">>
         \o FormatD(seconds % 60, 2)

\* transcript_segment.seconds_to_timestamp(seconds), whole seconds.
seconds_to_timestamp(seconds) ==
    IF seconds < 3600
    THEN FormatD(seconds \div 60, 1) \o <<":">> \o FormatD(seconds % 60, 2)
    ELSE FormatD(seconds \div 3600, 1) \o <<":">>
         \o FormatD((seconds % 3600) \div 60, 2) \o <<":">>
         \o FormatD(seconds % 60, 2)

Newline == "\n"

IsDigit(ch) == \E d \in 1..10 : DigitChars[d] = ch

AllDigits(s) == \A k \in 1..Len(s) : IsDigit(s[k])

\* str.split(':')
RECURSIVE SplitColon(_)
SplitColon(s) ==
    IF \A k \in 1..Len(s) : s[k] # ":" THEN <<s>>
    ELSE LET k == CHOOSE i \in 1..Len(s) :
                      s[i] = ":" /\ \A j \in 1..(i - 1) : s[j] # ":"
         IN  <<SubSeq(s, 1, k - 1)>> \o SplitColon(SubSeq(s, k + 1, Len(s)))

\* A regular expression's $ matches at the end of the string and also just
\* before a newline that ends it: the text the pattern has to cover.
BeforeDollar(s) ==
    IF s # <<>> /\ s[Len(s)] = Newline
    THEN {s, SubSeq(s, 1, Len(s) - 1)} ELSE {s}

\* ^\d+:\d{2}$ on exactly this text
IsMinutesSeconds(body) ==
    LET parts == SplitColon(body)
    IN  /\ Len(parts) = 2
        /\ Len(parts[1]) >= 1 /\ AllDigits(parts[1])
        /\ Len(parts[2]) = 2 /\ AllDigits(parts[2])

\* ^\d+:\d{2}:\d{2}$ on exactly this text
IsHoursMinutesSeconds(body) ==
    LET parts == SplitColon(body)
    IN  /\ Len(parts) = 3
        /\ Len(parts[1]) >= 1 /\ AllDigits(parts[1])
        /\ Len(parts[2]) = 2 /\ AllDigits(parts[2])
        /\ Len(parts[3]) = 2 /\ AllDigits(parts[3])

\* re.match(r'^\d+:\d{2}$', timestamp)
MatchesMinutesSeconds(s) == \E body \in BeforeDollar(s) : IsMinutesSeconds(body)

\* re.match(r'^\d+:\d{2}:\d{2}$', timestamp)
MatchesHoursMinutesSeconds(s) ==
    \E body \in BeforeDollar(s) : IsHoursMinutesSeconds(body)

DigitValue(ch) == CHOOSE d \in 0..9 : DigitChars[d + 1] = ch

RECURSIVE DecimalValue(_)
DecimalValue(digits) ==
    IF digits = <<>> THEN 0
    ELSE 10 * DecimalValue(SubSeq(digits, 1, Len(digits) - 1))
         + DigitValue(digits[Len(digits)])

\* int(text) of digits that a newline may follow: int strips whitespace.
PyInt(text) == DecimalValue(SelectSeq(text, IsDigit))

\* Whether transcript_segment.timestamp_to_seconds(timestamp) returns; it
\* raises ValueError otherwise (line 32).
TimestampAccepted(s) ==
    MatchesMinutesSeconds(s) \/ MatchesHoursMinutesSeconds(s)

\* Mutant: the three-part form takes the hours for minutes.
timestamp_to_seconds_HoursAsMinutes(s) ==
    LET parts == SplitColon(s)
    IN  IF MatchesMinutesSeconds(s)
        THEN PyInt(parts[1]) * 60 + PyInt(parts[2])
        ELSE PyInt(parts[1]) * 60 + PyInt(parts[2]) * 60 + PyInt(parts[3])

\* transcript_segment.timestamp_to_seconds(timestamp), when it returns.
timestamp_to_seconds(s) ==
    LET parts == SplitColon(s)
    IN  IF MatchesMinutesSeconds(s)
        THEN PyInt(parts[1]) * 60 + PyInt(parts[2])
        ELSE PyInt(parts[1]) * 3600 + PyInt(parts[2]) * 60 + PyInt(parts[3])

---------------------------------------------------------------------------
(* format_transcript_text                                                  *)

\* minutes = int(current_start / 60)
WindowMinutes(start) == start \div Sec(60)
\* seconds = int(current_start % 60)
WindowSeconds(start) == IntSec(start % Sec(60))
\* timestamp = f"[{minutes:02d}:{seconds:02d}]"
WindowTimestamp(start) ==
    <<"[">> \o FormatD(WindowMinutes(start), 2) \o <<":">>
    \o FormatD(WindowSeconds(start), 2) \o <<"]">>
\* line_time = minutes * 60 + seconds   (whole seconds)
LineTime(start) == WindowMinutes(start) * 60 + WindowSeconds(start)

\* The merge threshold of line 491, in ticks.
MergeThreshold == Sec(10)

\* list.sort(key=lambda x: x['start_time']): a stable sort.
RECURSIVE InsertByStartTime(_, _)
InsertByStartTime(sorted, c) ==
    IF sorted = <<>> THEN <<c>>
    ELSE IF sorted[Len(sorted)].start_time <= c.start_time
         THEN Append(sorted, c)
         ELSE Append(InsertByStartTime(SubSeq(sorted, 1, Len(sorted) - 1), c),
                     sorted[Len(sorted)])

RECURSIVE SortFrom(_, _, _)
SortFrom(list, k, acc) ==
    IF k > Len(list) THEN acc
    ELSE SortFrom(list, k + 1, InsertByStartTime(acc, list[k]))

\* Mutant: the sort left out.
SortByStartTime_Unsorted(list) == list

SortByStartTime(list) == SortFrom(list, 1, <<>>)

\* chapter_lines.sort(key=lambda x: x[0]): a stable sort on line_time.
RECURSIVE InsertByLineTime(_, _)
InsertByLineTime(sorted, cl) ==
    IF sorted = <<>> THEN <<cl>>
    ELSE IF sorted[Len(sorted)][1] <= cl[1]
         THEN Append(sorted, cl)
         ELSE Append(InsertByLineTime(SubSeq(sorted, 1, Len(sorted) - 1), cl),
                     sorted[Len(sorted)])

RECURSIVE SortLinesFrom(_, _, _)
SortLinesFrom(list, k, acc) ==
    IF k > Len(list) THEN acc
    ELSE SortLinesFrom(list, k + 1, InsertByLineTime(acc, list[k]))

SortByLineTime(list) == SortLinesFrom(list, 1, <<>>)

\* A merged window line f"{timestamp} {current_text}".
SegmentLine(start, text) ==
    [kind |-> "segment", timestamp |-> WindowTimestamp(start), text |-> text]

\* A chapter line f"\n[CHAPTER] {start_time_formatted} - {title}\n".
ChapterLine(chapter) ==
    [kind |-> "chapter", formatted |-> chapter.start_time_formatted,
     title |-> chapter.title, start_time |-> chapter.start_time]

\* Lines 500-506: the chapters the window starting at line_time triggers.
RECURSIVE TakeChapters(_, _, _, _)
TakeChapters(chs, nci, line_time, lines) ==
    IF nci < Len(chs) /\ chs[nci + 1].start_time <= Sec(line_time)
    THEN TakeChapters(chs, nci + 1, line_time,
                      Append(lines, <<line_time, ChapterLine(chs[nci + 1])>>))
    ELSE <<nci, lines>>

\* Lines 539-542: the inner while of the insertion loop.
RECURSIVE DrainSegments(_, _, _)
DrainSegments(segs, segment_index, res) ==
    IF segment_index < Len(segs) /\ segment_index < Len(segs)
    THEN DrainSegments(segs, segment_index + 1,
                       Append(res, segs[segment_index + 1]))
    ELSE <<segment_index, res>>

\* Lines 538-544: for _, chapter_line in chapter_lines.
RECURSIVE InsertLoop(_, _, _, _, _)
InsertLoop(cls, k, segs, segment_index, res) ==
    IF k > Len(cls) THEN <<segment_index, res>>
    ELSE LET d == DrainSegments(segs, segment_index, res)
         IN  InsertLoop(cls, k + 1, segs, d[1], Append(d[2], cls[k][2]))

\* Lines 547-549: add any remaining segments.
RECURSIVE RemainingSegments(_, _, _)
RemainingSegments(segs, segment_index, res) ==
    IF segment_index < Len(segs)
    THEN RemainingSegments(segs, segment_index + 1,
                           Append(res, segs[segment_index + 1]))
    ELSE res

\* Lines 531-553: the value returned, as a list of lines.
InsertChapterLines(chs, cls, segs) ==
    IF chs # <<>> /\ cls # <<>>
    THEN LET sorted == SortByLineTime(cls)
             looped == InsertLoop(sorted, 1, segs, 0, <<>>)
         IN  RemainingSegments(segs, looped[1], looped[2])
    ELSE segs

---------------------------------------------------------------------------
(* Inputs of format_transcript_text.                                       *)

\* Python's None.
None == [none |-> TRUE]

Letters == <<"a", "b", "c", "d", "e", "f">>
Space == " "

\* A cue is a dict with keys text, start and (normally) duration.
Cue(text, start, duration) ==
    [text |-> text, start |-> start, duration |-> duration]
CueNoDuration(text, start) == [text |-> text, start |-> start]

HasDuration(cue) == "duration" \in DOMAIN cue

\* Cue durations: an instantaneous marker, half the threshold, over it.
Durations == {0, Sec(5), Sec(12)}
\* Gaps between the starts of consecutive cues (starts never decrease).
Gaps == {0, Sec(6) + 1}
\* Chapter start times, fractional ones included.
ChapterStarts == {0, Sec(6) + 1, Sec(13)}

\* Caption tracks whose texts and durations vary (a cue may be empty, or
\* lack its duration key); starts advance by a fixed gap.
RECURSIVE TextTranscripts(_)
TextTranscripts(n) ==
    IF n = 0 THEN {<<>>}
    ELSE LET shorter == TextTranscripts(n - 1)
             start == (n - 1) * (Sec(6) + 1)
         IN  shorter \cup
             { Append(t, c) :
                 t \in {s \in shorter : Len(s) = n - 1},
                 c \in { Cue(x, start, d) :
                            x \in {<<>>, <<Letters[n]>>}, d \in Durations }
                       \cup { CueNoDuration(x, start) :
                                x \in {<<>>, <<Letters[n]>>} } }

\* Caption tracks whose starts and durations vary; every cue has its own
\* one-letter text.
RECURSIVE TimedTranscripts(_)
TimedTranscripts(n) ==
    IF n = 0 THEN {<<>>}
    ELSE LET shorter == TimedTranscripts(n - 1)
         IN  shorter \cup
             { Append(t, Cue(<<Letters[n]>>,
                             (IF n = 1 THEN 0 ELSE t[n - 1].start) + g, d)) :
                 t \in {s \in shorter : Len(s) = n - 1},
                 g \in Gaps, d \in Durations }

\* Cue starts around the first hour, a fractional one included.
LateStarts == {Sec(3599), Sec(3600), Sec(3661) + 1}

\* Caption tracks of a long video: every cue is longer than the threshold,
\* so that every cue after the first closes a window.
RECURSIVE LateTranscripts(_)
LateTranscripts(n) ==
    IF n = 0 THEN {<<>>}
    ELSE LET shorter == LateTranscripts(n - 1)
         IN  shorter \cup
             UNION { { Append(t, Cue(<<Letters[n]>>, st, Sec(12))) :
                         st \in {x \in LateStarts :
                                    n = 1 \/ x >= t[n - 1].start} } :
                     t \in {s \in shorter : Len(s) = n - 1} }

\* A chapter marker as get_chapter_markers builds it; the title stands for
\* the position of the marker in the caller's list.
Chapter(title, start_time) ==
    [title |-> title, start_time |-> start_time,
     start_time_formatted |-> format_timestamp(start_time)]

\* Chapter lists in any order, duplicates of a start time included.
RECURSIVE ChapterLists(_)
ChapterLists(n) ==
    IF n = 0 THEN {<<>>}
    ELSE LET shorter == ChapterLists(n - 1)
         IN  shorter \cup
             { Append(l, Chapter(n, s)) :
                 l \in {x \in shorter : Len(x) = n - 1}, s \in ChapterStarts }

CodecIdle ==
    /\ seconds_in = 0
    /\ timestamp = <<>>
    /\ parsed = None

LocatorIdle ==
    /\ cues = <<>>
    /\ target_time = 0
    /\ context_seconds = 0
    /\ segment = <<>>
    /\ fetches = <<>>
    /\ metadata = None
    /\ video_chapters = <<>>
    /\ current_chapter = None
    /\ response = None

\* A score common / total, kept as a fraction.
Fraction(num, den) == [num |-> num, den |-> den]

ClaimIdle ==
    /\ claim = <<>>
    /\ fuzzy_match = FALSE
    /\ normalized_claim = <<>>
    /\ claim_words = {}
    /\ best_match = None
    /\ best_match_score = Fraction(0, 1)
    /\ scan = 0
    /\ scored = 0
    /\ claim_match = None

SpeakerIdle ==
    /\ hints = <<>>
    /\ labeled_cues = <<>>
    /\ speakers = <<>>
    /\ matched_by = <<>>

\* An API key that is None.
NoKey == "None"

SearchIdle ==
    /\ env_key = NoKey
    /\ config_key = NoKey
    /\ search_client = None
    /\ constructed = <<>>
    /\ calls = <<>>
    /\ query = <<>>
    /\ num_results = 0
    /\ search_context = <<>>
    /\ http_requests = <<>>
    /\ search_calls = 0
    /\ search_result = None
    /\ formatted_results = None
    /\ tool_output = None

ReflowIdle ==
    /\ transcript = <<>>
    /\ chapters = <<>>
    /\ chapters_at_call = <<>>
    /\ idx = 0
    /\ window_first = 1
    /\ merged_segments = <<>>
    /\ current_text = <<>>
    /\ current_start = 0
    /\ current_duration = 0
    /\ next_chapter_index = 0
    /\ chapter_lines = <<>>
    /\ result = <<>>

\* The call format_transcript_text(transcript, chapters) is about to run.
\* chapters = None is the empty list here: the code only tests its truth.
InitReflow ==
    /\ op = "format_transcript_text"
    /\ pc = "fmt_call"
    /\ CodecIdle
    /\ LocatorIdle
    /\ \/ /\ transcript \in TextTranscripts(MaxCues)
          /\ chapters = <<>>
       \/ /\ transcript \in TimedTranscripts(MaxCues)
          /\ chapters \in ChapterLists(MaxChapters)
       \/ /\ transcript \in LateTranscripts(MaxCues) \ {<<>>}
          /\ chapters = <<>>
    /\ chapters_at_call = chapters
    /\ idx = 0
    /\ window_first = 1
    /\ merged_segments = <<>>
    /\ current_text = <<>>
    /\ current_start = 0
    /\ current_duration = 0
    /\ next_chapter_index = 0
    /\ chapter_lines = <<>>
    /\ result = <<>>
    /\ ClaimIdle
    /\ SearchIdle
    /\ SpeakerIdle

\* Lines 474-487: the empty check, the locals, the in-place sort.
Begin ==
    /\ pc = "fmt_call"
    /\ IF transcript = <<>>
       THEN /\ pc' = "fmt_done"
            /\ UNCHANGED <<chapters, current_start>>
       ELSE /\ pc' = "fmt_loop"
            /\ current_start' = transcript[1].start
            /\ chapters' = IF chapters # <<>>
                           THEN SortByStartTime(chapters) ELSE chapters
    /\ UNCHANGED <<codecVars, locatorVars>>
    /\ UNCHANGED <<op, transcript, chapters_at_call, idx, window_first,
                   merged_segments, current_text, current_duration,
                   next_chapter_index, chapter_lines, result>>
    /\ UNCHANGED <<claimVars, searchVars, speakerVars>>

\* Mutant: an empty window is closed too.
ClosesWindow_SumOnly(duration_so_far, cue) ==
    duration_so_far + cue.duration > MergeThreshold

\* Mutant: the test looks at the new cue alone, not at the sum.
ClosesWindow_CueAlone(duration_so_far, cue) ==
    duration_so_far > 0 /\ cue.duration > MergeThreshold

\* Line 491: the test that closes the current window.
ClosesWindow(duration_so_far, cue) ==
    duration_so_far > 0 /\ duration_so_far + cue.duration > MergeThreshold

\* Lines 491, 521: segment["duration"] of a cue without the key: KeyError.
LoopRaise ==
    /\ pc = "fmt_loop"
    /\ idx < Len(transcript)
    /\ ~HasDuration(transcript[idx + 1])
    /\ pc' = "fmt_raised"
    /\ UNCHANGED <<op, reflowVars, codecVars, locatorVars>>
    /\ UNCHANGED <<claimVars, searchVars, speakerVars>>

\* Lines 491-514: close the current window, start the next with this cue.
LoopClose ==
    /\ pc = "fmt_loop"
    /\ idx < Len(transcript)
    /\ HasDuration(transcript[idx + 1])
    /\ ClosesWindow(current_duration, transcript[idx + 1])
    /\ LET cue == transcript[idx + 1]
           line_time == LineTime(current_start)
           taken == IF chapters # <<>>
                    THEN TakeChapters(chapters, next_chapter_index,
                                      line_time, chapter_lines)
                    ELSE <<next_chapter_index, chapter_lines>>
       IN  /\ next_chapter_index' = taken[1]
           /\ chapter_lines' = taken[2]
           /\ merged_segments' =
                  Append(merged_segments,
                         SegmentLine(current_start, current_text))
           /\ current_text' = cue.text
           /\ current_start' = cue.start
           /\ current_duration' = cue.duration
    /\ window_first' = idx + 1
    /\ idx' = idx + 1
    /\ UNCHANGED <<codecVars, locatorVars>>
    /\ UNCHANGED <<op, pc, transcript, chapters, chapters_at_call, result>>
    /\ UNCHANGED <<claimVars, searchVars, speakerVars>>

\* Lines 517-520: the text of the window with one more cue.
AppendText(text_so_far, text) ==
    IF text_so_far # <<>> THEN text_so_far \o <<Space>> \o text ELSE text

\* Lines 515-521: add the cue to the current window.
LoopAppend ==
    /\ pc = "fmt_loop"
    /\ idx < Len(transcript)
    /\ HasDuration(transcript[idx + 1])
    /\ ~ClosesWindow(current_duration, transcript[idx + 1])
    /\ LET cue == transcript[idx + 1]
       IN  /\ current_text' = AppendText(current_text, cue.text)
           /\ current_duration' = current_duration + cue.duration
    /\ idx' = idx + 1
    /\ UNCHANGED <<codecVars, locatorVars>>
    /\ UNCHANGED <<op, pc, transcript, chapters, chapters_at_call,
                   window_first, merged_segments, current_start,
                   next_chapter_index, chapter_lines, result>>
    /\ UNCHANGED <<claimVars, searchVars, speakerVars>>

\* Mutant: the last window is never added.
WithLastWindow_Dropped(segs, start, text) == segs

\* Lines 524-528: add the last window if there is anything left.
WithLastWindow(segs, start, text) ==
    IF text # <<>> THEN Append(segs, SegmentLine(start, text)) ELSE segs

\* Lines 523-553: the last window, the chapter insertion, the return.
Finish ==
    /\ pc = "fmt_loop"
    /\ idx = Len(transcript)
    /\ LET segs == WithLastWindow(merged_segments, current_start,
                                  current_text)
       IN  /\ merged_segments' = segs
           /\ result' = InsertChapterLines(chapters, chapter_lines, segs)
    /\ pc' = "fmt_done"
    /\ UNCHANGED <<codecVars, locatorVars>>
    /\ UNCHANGED <<op, transcript, chapters, chapters_at_call, idx,
                   window_first, current_text, current_start,
                   current_duration, next_chapter_index, chapter_lines>>
    /\ UNCHANGED <<claimVars, searchVars, speakerVars>>

Init == InitReflow

Next == Begin \/ LoopRaise \/ LoopClose \/ LoopAppend \/ Finish

Spec == Init /\ [][Next]_vars

---------------------------------------------------------------------------
(* The timestamp codec: format_timestamp, seconds_to_timestamp,            *)
(* timestamp_to_seconds.                                                   *)

\* Where the renderings change shape: minutes, hours, the widths of both.
CodecBoundaries == {0, 60, 600, 3600, 36000, 360000, 3600000}

CodecSeconds ==
    {x \in UNION {(b - CodecSpan)..(b + CodecSpan) : b \in CodecBoundaries} :
        x >= 0}

ClockAlphabet == {"1", ":", "x", Newline}

RECURSIVE ClockStrings(_)
ClockStrings(n) ==
    IF n = 0 THEN {<<>>}
    ELSE LET shorter == ClockStrings(n - 1)
         IN  shorter \cup
             { Append(x, ch) :
                 x \in {y \in shorter : Len(y) = n - 1}, ch \in ClockAlphabet }

InitCodec ==
    /\ op = "codec"
    /\ \/ /\ pc = "codec_seconds"
          /\ seconds_in \in CodecSeconds
          /\ timestamp = <<>>
       \/ /\ pc = "given"
          /\ seconds_in = 0
          /\ timestamp \in ClockStrings(MaxClockLen)
    /\ parsed = None
    /\ ReflowIdle
    /\ LocatorIdle
    /\ ClaimIdle
    /\ SearchIdle
    /\ SpeakerIdle

\* format_timestamp(seconds_in)
FormatStrict ==
    /\ pc = "codec_seconds"
    /\ timestamp' = format_timestamp(Sec(seconds_in))
    /\ pc' = "strict"
    /\ UNCHANGED <<op, seconds_in, parsed, reflowVars, locatorVars>>
    /\ UNCHANGED <<claimVars, searchVars, speakerVars>>

\* seconds_to_timestamp(seconds_in)
FormatCompact ==
    /\ pc = "codec_seconds"
    /\ timestamp' = seconds_to_timestamp(seconds_in)
    /\ pc' = "compact"
    /\ UNCHANGED <<op, seconds_in, parsed, reflowVars, locatorVars>>
    /\ UNCHANGED <<claimVars, searchVars, speakerVars>>

ParsedPc(from) ==
    CASE from = "strict" -> "strict_parsed"
      [] from = "compact" -> "compact_parsed"
      [] from = "given" -> "given_parsed"

RejectedPc(from) ==
    CASE from = "strict" -> "strict_rejected"
      [] from = "compact" -> "compact_rejected"
      [] from = "given" -> "given_rejected"

\* timestamp_to_seconds(timestamp) returns (lines 25-30).
Parse ==
    /\ pc \in {"strict", "compact", "given"}
    /\ TimestampAccepted(timestamp)
    /\ parsed' = timestamp_to_seconds(timestamp)
    /\ pc' = ParsedPc(pc)
    /\ UNCHANGED <<op, seconds_in, timestamp, reflowVars, locatorVars>>
    /\ UNCHANGED <<claimVars, searchVars, speakerVars>>

\* timestamp_to_seconds(timestamp) raises ValueError (line 32).
ParseRaise ==
    /\ pc \in {"strict", "compact", "given"}
    /\ ~TimestampAccepted(timestamp)
    /\ pc' = RejectedPc(pc)
    /\ UNCHANGED <<op, seconds_in, timestamp, parsed, reflowVars,
                   locatorVars>>
    /\ UNCHANGED <<claimVars, searchVars, speakerVars>>

NextCodec == FormatStrict \/ FormatCompact \/ Parse \/ ParseRaise

SpecCodec == InitCodec /\ [][NextCodec]_vars

---------------------------------------------------------------------------
(* find_transcript_segment                                                 *)

Max(a, b) == IF a >= b THEN a ELSE b

\* item_end = item_start + item.get('duration', 0)
ItemEnd(item) ==
    item.start + (IF HasDuration(item) THEN item.duration ELSE 0)

\* Mutant: the case of a cue spanning the whole range is left out.
InRange_NoSpanning(item, start_time, end_time) ==
    \/ (item.start >= start_time /\ item.start <= end_time)
    \/ (ItemEnd(item) >= start_time /\ ItemEnd(item) <= end_time)

\* Lines 76-78: the three-case test.
InRange(item, start_time, end_time) ==
    \/ (item.start >= start_time /\ item.start <= end_time)
    \/ (ItemEnd(item) >= start_time /\ ItemEnd(item) <= end_time)
    \/ (item.start <= start_time /\ ItemEnd(item) >= end_time)

\* start_time = max(0, target_time - context_seconds), in ticks
RangeStart(target, context) == Max(0, Sec(target) - Sec(context))
\* end_time = target_time + context_seconds, in ticks
RangeEnd(target, context) == Sec(target) + Sec(context)

\* transcript_segment.find_transcript_segment; target and context are
\* whole seconds.
find_transcript_segment(track, target, context) ==
    SelectSeq(track, LAMBDA item :
                  InRange(item, RangeStart(target, context),
                          RangeEnd(target, context)))

FindStarts == {0, Sec(25), Sec(39)}
FindDurations == {0, Sec(1), Sec(10)}
FindTargets == {0, 30, 36, 37}
FindRadii == {0, 2, 10}

\* Caption tracks for the locator: starts never decrease; a cue may lack
\* its duration key.
RECURSIVE FindTranscripts(_)
FindTranscripts(n) ==
    IF n = 0 THEN {<<>>}
    ELSE LET shorter == FindTranscripts(n - 1)
         IN  shorter \cup
             { Append(t, c) :
                 t \in {x \in shorter : Len(x) = n - 1},
                 c \in { Cue(<<Letters[n]>>, st, d) :
                            st \in FindStarts, d \in FindDurations }
                       \cup { CueNoDuration(<<Letters[n]>>, st) :
                                st \in FindStarts } }

StartsNeverDecrease(track) ==
    \A k \in 1..(Len(track) - 1) : track[k].start <= track[k + 1].start

InitFind ==
    /\ op = "find_transcript_segment"
    /\ pc = "find_call"
    /\ cues \in {t \in FindTranscripts(MaxFindCues) : StartsNeverDecrease(t)}
    /\ target_time \in FindTargets
    /\ context_seconds \in FindRadii
    /\ segment = <<>>
    /\ fetches = <<>>
    /\ metadata = None
    /\ video_chapters = <<>>
    /\ current_chapter = None
    /\ response = None
    /\ ReflowIdle
    /\ CodecIdle
    /\ ClaimIdle
    /\ SearchIdle
    /\ SpeakerIdle

\* segment = find_transcript_segment(cues, target_time, context_seconds)
FindSegment ==
    /\ pc = "find_call"
    /\ segment' = find_transcript_segment(cues, target_time, context_seconds)
    /\ pc' = "find_done"
    /\ UNCHANGED <<op, cues, target_time, context_seconds, fetches, metadata,
                   video_chapters, current_chapter, response, reflowVars,
                   codecVars>>
    /\ UNCHANGED <<claimVars, searchVars, speakerVars>>

NextFind == FindSegment

SpecFind == InitFind /\ [][NextFind]_vars

---------------------------------------------------------------------------
(* extract_transcript_segment                                              *)

\* Clock strings a caller passes: three well-formed ones, one with a
\* one-digit seconds part and one that a newline ends.
ExtractTimestamps ==
    { <<"0", ":", "0", "0">>, <<"0", ":", "0", "6">>,
      <<"0", ":", "3", "6">>, <<"0", ":", "6">>,
      <<"0", ":", "0", "6", Newline>> }

ExtractContexts == {2, 10}

\* What get_chapter_markers returns when it returns (lines 349-363): the
\* markers without duplicate start times, sorted by start time, each with
\* start_time_formatted = format_timestamp(start_time); possibly none.
ChapterMarkerResults ==
    { l \in ChapterLists(MaxChapters) :
        \A k \in 1..(Len(l) - 1) : l[k].start_time < l[k + 1].start_time }

\* What get_video_metadata returns when it returns.
MetadataResults == { [title |-> "Title", author |-> "Author"] }

Fetch(call, ok) == [call |-> call, ok |-> ok]

InitExtract ==
    /\ op = "extract_transcript_segment"
    /\ pc = "x_call"
    /\ timestamp \in ExtractTimestamps
    /\ context_seconds \in ExtractContexts
    /\ seconds_in = 0
    /\ parsed = None
    /\ cues = <<>>
    /\ target_time = 0
    /\ segment = <<>>
    /\ fetches = <<>>
    /\ metadata = None
    /\ video_chapters = <<>>
    /\ current_chapter = None
    /\ response = None
    /\ ReflowIdle
    /\ ClaimIdle
    /\ SearchIdle
    /\ SpeakerIdle

\* Line 104: target_time = timestamp_to_seconds(timestamp)
XParse ==
    /\ pc = "x_call"
    /\ TimestampAccepted(timestamp)
    /\ target_time' = timestamp_to_seconds(timestamp)
    /\ pc' = "x_get_transcript"
    /\ UNCHANGED <<op, cues, context_seconds, segment, fetches, metadata,
                   video_chapters, current_chapter, response, reflowVars,
                   codecVars>>
    /\ UNCHANGED <<claimVars, searchVars, speakerVars>>

\* Line 104: the ValueError of timestamp_to_seconds leaves the function.
XParseRaise ==
    /\ pc = "x_call"
    /\ ~TimestampAccepted(timestamp)
    /\ pc' = "x_value_error"
    /\ UNCHANGED <<op, reflowVars, codecVars, locatorVars>>
    /\ UNCHANGED <<claimVars, searchVars, speakerVars>>

\* Line 107: transcript = tlib.get_transcript(video_id, language_code)
XGetTranscript ==
    /\ pc = "x_get_transcript"
    /\ \E track \in {t \in FindTranscripts(MaxFindCues) :
                         StartsNeverDecrease(t)} :
          cues' = track
    /\ fetches' = Append(fetches, Fetch("get_transcript", TRUE))
    /\ pc' = "x_select"
    /\ UNCHANGED <<op, target_time, context_seconds, segment, metadata,
                   video_chapters, current_chapter, response, reflowVars,
                   codecVars>>
    /\ UNCHANGED <<claimVars, searchVars, speakerVars>>

\* Line 107: the TranscriptError of get_transcript leaves the function.
XGetTranscriptRaise ==
    /\ pc = "x_get_transcript"
    /\ fetches' = Append(fetches, Fetch("get_transcript", FALSE))
    /\ pc' = "x_transcript_error"
    /\ UNCHANGED <<op, cues, target_time, context_seconds, segment, metadata,
                   video_chapters, current_chapter, response, reflowVars,
                   codecVars>>
    /\ UNCHANGED <<claimVars, searchVars, speakerVars>>

\* Line 110: segment = find_transcript_segment(...)
XSelect ==
    /\ pc = "x_select"
    /\ segment' = find_transcript_segment(cues, target_time, context_seconds)
    /\ pc' = "x_metadata"
    /\ UNCHANGED <<op, cues, target_time, context_seconds, fetches, metadata,
                   video_chapters, current_chapter, response, reflowVars,
                   codecVars>>
    /\ UNCHANGED <<claimVars, searchVars, speakerVars>>

\* Lines 113-114: metadata = tlib.get_video_metadata(video_id)
XMetadata ==
    /\ pc = "x_metadata"
    /\ metadata' \in MetadataResults
    /\ fetches' = Append(fetches, Fetch("get_video_metadata", TRUE))
    /\ pc' = "x_chapters"
    /\ UNCHANGED <<op, cues, target_time, context_seconds, segment,
                   video_chapters, current_chapter, response, reflowVars,
                   codecVars>>
    /\ UNCHANGED <<claimVars, searchVars, speakerVars>>

\* Lines 115-116: any exception of the metadata fetch is replaced.
XMetadataRaise ==
    /\ pc = "x_metadata"
    /\ metadata' = [title |-> "Unknown", author |-> "Unknown"]
    /\ fetches' = Append(fetches, Fetch("get_video_metadata", FALSE))
    /\ pc' = "x_chapters"
    /\ UNCHANGED <<op, cues, target_time, context_seconds, segment,
                   video_chapters, current_chapter, response, reflowVars,
                   codecVars>>
    /\ UNCHANGED <<claimVars, searchVars, speakerVars>>

\* Lines 125-128: the chapter the loop is left with: the last one whose
\* formatted start, parsed back to whole seconds, is at or before target.
RECURSIVE ChapterLoop(_, _, _, _)
ChapterLoop(list, k, target, current) ==
    IF k > Len(list) THEN current
    ELSE LET chapter_start ==
                 timestamp_to_seconds(list[k].start_time_formatted)
         IN  ChapterLoop(list, k + 1, target,
                         IF chapter_start <= target THEN list[k] ELSE current)

\* Lines 121-131: current_chapter for the markers fetched; a ValueError of
\* timestamp_to_seconds inside the loop is caught by the bare except.
ResolveChapter(list, target) ==
    IF \E k \in 1..Len(list) :
           ~TimestampAccepted(list[k].start_time_formatted)
    THEN None
    ELSE ChapterLoop(list, 1, target, None)

\* Lines 119-128: chapters = tlib.get_chapter_markers(video_id), the loop.
XChapters ==
    /\ pc = "x_chapters"
    /\ \E list \in ChapterMarkerResults :
          /\ video_chapters' = list
          /\ current_chapter' = ResolveChapter(list, target_time)
    /\ fetches' = Append(fetches, Fetch("get_chapter_markers", TRUE))
    /\ pc' = "x_format"
    /\ UNCHANGED <<op, cues, target_time, context_seconds, segment, metadata,
                   response, reflowVars, codecVars>>
    /\ UNCHANGED <<claimVars, searchVars, speakerVars>>

\* Lines 129-131: any exception of the chapter fetch: chapters = None.
XChaptersRaise ==
    /\ pc = "x_chapters"
    /\ video_chapters' = <<>>
    /\ current_chapter' = None
    /\ fetches' = Append(fetches, Fetch("get_chapter_markers", FALSE))
    /\ pc' = "x_format"
    /\ UNCHANGED <<op, cues, target_time, context_seconds, segment, metadata,
                   response, reflowVars, codecVars>>
    /\ UNCHANGED <<claimVars, searchVars, speakerVars>>

\* Line 134: formatted_segment = tlib.format_transcript_text(segment)
XFormat ==
    /\ pc = "x_format"
    /\ transcript' = segment
    /\ chapters' = <<>>
    /\ chapters_at_call' = <<>>
    /\ pc' = "fmt_call"
    /\ UNCHANGED <<op, idx, window_first, merged_segments, current_text,
                   current_start, current_duration, next_chapter_index,
                   chapter_lines, result, codecVars, locatorVars>>
    /\ UNCHANGED <<claimVars, searchVars, speakerVars>>

\* Lines 137-148: the response.
XReturn ==
    /\ op = "extract_transcript_segment"
    /\ pc = "fmt_done"
    /\ response' =
          [video_title |-> metadata.title,
           author |-> metadata.author,
           timestamp |-> timestamp,
           timestamp_seconds |-> target_time,
           context_seconds |-> context_seconds,
           chapter |-> IF current_chapter # None
                       THEN current_chapter.title ELSE None,
           segment |-> result]
    /\ pc' = "x_done"
    /\ UNCHANGED <<op, cues, target_time, context_seconds, segment, fetches,
                   metadata, video_chapters, current_chapter, reflowVars,
                   codecVars>>
    /\ UNCHANGED <<claimVars, searchVars, speakerVars>>

NextExtract ==
    \/ XParse \/ XParseRaise
    \/ XGetTranscript \/ XGetTranscriptRaise
    \/ XSelect
    \/ XMetadata \/ XMetadataRaise
    \/ XChapters \/ XChaptersRaise
    \/ XFormat
    \/ Begin \/ LoopRaise \/ LoopClose \/ LoopAppend \/ Finish
    \/ XReturn

SpecExtract == InitExtract /\ [][NextExtract]_vars

---------------------------------------------------------------------------
(* find_claim_in_transcript                                                *)

Uppers == <<"A", "B", "C", "D", "E", "F">>

\* str.lower(), character by character.
LowerChar(ch) ==
    IF \E k \in 1..Len(Uppers) : Uppers[k] = ch
    THEN Letters[CHOOSE k \in 1..Len(Uppers) : Uppers[k] = ch]
    ELSE ch

Lower(s) == [k \in 1..Len(s) |-> LowerChar(s[k])]

\* The whitespace str.strip() and str.split() act on.
IsSpace(ch) == ch \in {Space, Newline}

\* Mutant: the claim is not trimmed.
Strip_Forgotten(s) == s

\* str.strip()
RECURSIVE Strip(_)
Strip(s) ==
    IF s = <<>> THEN s
    ELSE IF IsSpace(s[1]) THEN Strip(Tail(s))
    ELSE IF IsSpace(s[Len(s)]) THEN Strip(SubSeq(s, 1, Len(s) - 1))
    ELSE s

\* Mutant: an empty string is found nowhere.
Contains_NonEmpty(text, sub) ==
    /\ sub # <<>>
    /\ \E i \in 0..(Len(text) - Len(sub)) :
          SubSeq(text, i + 1, i + Len(sub)) = sub

\* sub in text
Contains(text, sub) ==
    \E i \in 0..(Len(text) - Len(sub)) :
        SubSeq(text, i + 1, i + Len(sub)) = sub

\* str.split(): the runs of non-whitespace characters, in order.
RECURSIVE SplitFrom(_, _, _, _)
SplitFrom(s, k, word, words) ==
    IF k > Len(s)
    THEN IF word # <<>> THEN Append(words, word) ELSE words
    ELSE IF IsSpace(s[k])
         THEN SplitFrom(s, k + 1, <<>>,
                        IF word # <<>> THEN Append(words, word) ELSE words)
         ELSE SplitFrom(s, k + 1, Append(word, s[k]), words)

Split(s) == SplitFrom(s, 1, <<>>, <<>>)

\* set(s.split())
WordSet(s) == {Split(s)[k] : k \in 1..Len(Split(s))}

\* a > b for two fractions with positive denominators.
GreaterThan(a, b) == a.num * b.den > b.num * a.den

\* Mutant: the overlap is measured against the words of the cue.
MatchScore_OverCueWords(words, text) ==
    LET text_words == WordSet(Lower(text))
        common_words == words \cap text_words
    IN  Fraction(Cardinality(common_words), Cardinality(text_words))

\* Lines 183-188: match_score of a cue text against the claim's words.
MatchScore(words, text) ==
    LET text_words == WordSet(Lower(text))
        common_words == words \cap text_words
    IN  Fraction(Cardinality(common_words), Cardinality(words))

\* Mutant: the scan for an exact match compares the words, not the text.
ExactMatch_ByWords(item, needle) ==
    WordSet(needle) \subseteq WordSet(Lower(item.text))

\* Lines 167-168: normalized_claim in item['text'].lower()
ExactMatch(item, needle) == Contains(Lower(item.text), needle)

\* Mutant: a score of at least one half is accepted.
Improves_AtLeastHalf(match_score, best) ==
    ~GreaterThan(Fraction(1, 2), match_score) /\ GreaterThan(match_score, best)

\* Line 190: match_score > 0.5 and match_score > best_match_score
Improves(match_score, best) ==
    GreaterThan(match_score, Fraction(1, 2)) /\ GreaterThan(match_score, best)

\* Lines 169-173: the dict of an exact match.
ExactResult(item) ==
    [timestamp |-> seconds_to_timestamp(IntSec(item.start)),
     timestamp_seconds |-> IntSec(item.start),
     context |-> item.text]

\* Lines 195-200: the dict of a fuzzy match.
FuzzyResult(item, score) ==
    [timestamp |-> seconds_to_timestamp(IntSec(item.start)),
     timestamp_seconds |-> IntSec(item.start),
     context |-> item.text,
     match_score |-> score]

\* Longest caption track handed to the claim locator.
MaxClaimCues == 3

\* Cue texts: "a b c d", "A b", "ab e", "e b a" and "".
ClaimCueTexts ==
    { <<"a", " ", "b", " ", "c", " ", "d">>,
      <<"A", " ", "b">>,
      <<"a", "b", " ", "e">>,
      <<"e", " ", "b", " ", "a">>,
      <<>> }

\* Claims: "", " \n", " a B ", "b c x y", "d c b a g", "c b a", "b e",
\* "a a b x".
ClaimStrings ==
    { <<>>,
      <<" ", Newline>>,
      <<" ", "a", " ", "B", " ">>,
      <<"b", " ", "c", " ", "x", " ", "y">>,
      <<"d", " ", "c", " ", "b", " ", "a", " ", "g">>,
      <<"c", " ", "b", " ", "a">>,
      <<"b", " ", "e">>,
      <<"a", " ", "a", " ", "b", " ", "x">> }

\* The start of the first cue, three and a half seconds before the hour;
\* the cues follow each other every 35 seconds.
ClaimOffset == Sec(3596) + 1
ClaimSpacing == Sec(35)

RECURSIVE ClaimTranscripts(_)
ClaimTranscripts(n) ==
    IF n = 0 THEN {<<>>}
    ELSE LET shorter == ClaimTranscripts(n - 1)
         IN  shorter \cup
             { Append(t, Cue(x, ClaimOffset + (n - 1) * ClaimSpacing,
                             Sec(3))) :
                 t \in {s \in shorter : Len(s) = n - 1},
                 x \in ClaimCueTexts }

InitClaim ==
    /\ op = "find_claim_in_transcript"
    /\ pc = "claim_call"
    /\ cues \in ClaimTranscripts(MaxClaimCues)
    /\ claim \in ClaimStrings
    /\ fuzzy_match \in BOOLEAN
    /\ normalized_claim = <<>>
    /\ claim_words = {}
    /\ best_match = None
    /\ best_match_score = Fraction(0, 1)
    /\ scan = 0
    /\ scored = 0
    /\ claim_match = None
    /\ target_time = 0
    /\ context_seconds = 0
    /\ segment = <<>>
    /\ fetches = <<>>
    /\ metadata = None
    /\ video_chapters = <<>>
    /\ current_chapter = None
    /\ response = None
    /\ ReflowIdle
    /\ CodecIdle
    /\ SearchIdle
    /\ SpeakerIdle

\* Line 163: normalized_claim = claim.lower().strip()
ClaimNormalize ==
    /\ pc = "claim_call"
    /\ normalized_claim' = Strip(Lower(claim))
    /\ scan' = 0
    /\ pc' = "claim_exact"
    /\ UNCHANGED <<op, claim, fuzzy_match, claim_words, best_match,
                   best_match_score, scored, claim_match>>
    /\ UNCHANGED <<reflowVars, codecVars, locatorVars, searchVars, speakerVars>>

\* Lines 166-173: the cue in hand contains the claim: return it.
ClaimExactHit ==
    /\ pc = "claim_exact"
    /\ scan < Len(cues)
    /\ ExactMatch(cues[scan + 1], normalized_claim)
    /\ claim_match' = ExactResult(cues[scan + 1])
    /\ pc' = "claim_done"
    /\ UNCHANGED <<op, claim, fuzzy_match, normalized_claim, claim_words,
                   best_match, best_match_score, scan, scored>>
    /\ UNCHANGED <<reflowVars, codecVars, locatorVars, searchVars, speakerVars>>

\* Lines 166-168: the cue in hand does not contain the claim.
ClaimExactMiss ==
    /\ pc = "claim_exact"
    /\ scan < Len(cues)
    /\ ~ExactMatch(cues[scan + 1], normalized_claim)
    /\ scan' = scan + 1
    /\ UNCHANGED <<op, pc, claim, fuzzy_match, normalized_claim, claim_words,
                   best_match, best_match_score, scored, claim_match>>
    /\ UNCHANGED <<reflowVars, codecVars, locatorVars, searchVars, speakerVars>>

\* Lines 176-180: no cue contains the claim and fuzzy_match is set.
ClaimFuzzyBegin ==
    /\ pc = "claim_exact"
    /\ scan = Len(cues)
    /\ fuzzy_match
    /\ claim_words' = WordSet(normalized_claim)
    /\ best_match' = None
    /\ best_match_score' = Fraction(0, 1)
    /\ scan' = 0
    /\ pc' = "claim_fuzzy"
    /\ UNCHANGED <<op, claim, fuzzy_match, normalized_claim, scored,
                   claim_match>>
    /\ UNCHANGED <<reflowVars, codecVars, locatorVars, searchVars, speakerVars>>

\* Lines 176, 202: no cue contains the claim and fuzzy_match is not set.
ClaimNoFuzzy ==
    /\ pc = "claim_exact"
    /\ scan = Len(cues)
    /\ ~fuzzy_match
    /\ claim_match' = None
    /\ pc' = "claim_done"
    /\ UNCHANGED <<op, claim, fuzzy_match, normalized_claim, claim_words,
                   best_match, best_match_score, scan, scored>>
    /\ UNCHANGED <<reflowVars, codecVars, locatorVars, searchVars, speakerVars>>

\* Lines 182-192: score the cue in hand, keep it if it improves the best.
\* The division of line 188 raises ZeroDivisionError if the claim has no
\* words, and the error leaves the function.
ClaimFuzzyScore ==
    /\ pc = "claim_fuzzy"
    /\ scan < Len(cues)
    /\ IF claim_words = {}
       THEN /\ pc' = "claim_raised"
            /\ UNCHANGED <<best_match, best_match_score, scan, scored>>
       ELSE /\ LET item == cues[scan + 1]
                   match_score == MatchScore(claim_words, item.text)
               IN  IF Improves(match_score, best_match_score)
                   THEN /\ best_match' = item
                        /\ best_match_score' = match_score
                   ELSE UNCHANGED <<best_match, best_match_score>>
            /\ scan' = scan + 1
            /\ scored' = scored + 1
            /\ pc' = pc
    /\ UNCHANGED <<op, claim, fuzzy_match, normalized_claim, claim_words,
                   claim_match>>
    /\ UNCHANGED <<reflowVars, codecVars, locatorVars, searchVars, speakerVars>>

\* Lines 194-202: return the best match, or None.
ClaimFuzzyEnd ==
    /\ pc = "claim_fuzzy"
    /\ scan = Len(cues)
    /\ claim_match' = IF best_match # None
                      THEN FuzzyResult(best_match, best_match_score)
                      ELSE None
    /\ pc' = "claim_done"
    /\ UNCHANGED <<op, claim, fuzzy_match, normalized_claim, claim_words,
                   best_match, best_match_score, scan, scored>>
    /\ UNCHANGED <<reflowVars, codecVars, locatorVars, searchVars, speakerVars>>

\* The radius the find_claim_in_transcript tool asks for, line 293.
ToolContextSeconds == 30

\* transcript_mcp.find_claim_in_transcript, lines 283-294: for a match,
\* extract_transcript_segment(url, result['timestamp'], 30), which parses
\* the timestamp (transcript_segment line 104; a ValueError leaves the
\* function) and selects the cues around it in the same caption track
\* (lines 107-110).
ClaimSurrounding ==
    /\ pc = "claim_done"
    /\ claim_match # None
    /\ timestamp' = claim_match.timestamp
    /\ context_seconds' = ToolContextSeconds
    /\ IF TimestampAccepted(timestamp')
       THEN /\ target_time' = timestamp_to_seconds(timestamp')
            /\ segment' = find_transcript_segment(cues, target_time',
                                                  context_seconds')
            /\ pc' = "claim_located"
       ELSE /\ pc' = "claim_value_error"
            /\ UNCHANGED <<target_time, segment>>
    /\ UNCHANGED <<op, seconds_in, parsed, cues, fetches, metadata,
                   video_chapters, current_chapter, response>>
    /\ UNCHANGED <<reflowVars, claimVars, searchVars, speakerVars>>

NextClaim ==
    \/ ClaimNormalize
    \/ ClaimExactHit \/ ClaimExactMiss
    \/ ClaimFuzzyBegin \/ ClaimNoFuzzy
    \/ ClaimFuzzyScore \/ ClaimFuzzyEnd
    \/ ClaimSurrounding

SpecClaim == InitClaim /\ [][NextClaim]_vars

---------------------------------------------------------------------------
(* search_api.SearchAPIClient and the search tool of transcript_mcp        *)
(*                                                                         *)
(* A dict is a record whose domain is the set of its keys.  An API key is  *)
(* a string, NoKey standing for None.  A text that no step inspects (a     *)
(* link, a date, an error message) is kept as one string.                  *)

\* Largest num_results handed to search.
MaxResults == 6

\* range(min(num_results, 5)), line 123.
MockLimit == 5

\* num_results: int = 10, line 54.
DefaultNumResults == 10

\* Mutant: the key is compared with None; an empty key counts as a key.
KeyTruthy_NotNone(key) == key # NoKey

\* bool(key) of an API key: None and "" are false.
KeyTruthy(key) == key \notin {NoKey, ""}

\* a or b
Or(a, b) == IF KeyTruthy(a) THEN a ELSE b

\* SearchAPIClient.__init__, lines 43-44.
SearchAPIClient(api_key, mock_mode) ==
    [api_key |-> Or(Or(api_key, config_key), env_key),
     mock_mode |-> mock_mode]

Min(a, b) == IF a <= b THEN a ELSE b

\* "fact check"
FactCheck == <<"f", "a", "c", "t", " ", "c", "h", "e", "c", "k">>

\* str.replace(old, ""): the occurrences of old removed, left to right.
RECURSIVE RemoveAll(_, _)
RemoveAll(s, old) ==
    IF Len(s) < Len(old) \/ s = <<>> THEN s
    ELSE IF SubSeq(s, 1, Len(old)) = old
         THEN RemoveAll(SubSeq(s, Len(old) + 1, Len(s)), old)
         ELSE <<s[1]>> \o RemoveAll(Tail(s), old)

\* The moment datetime.now() gives.
Today == "today"
Now == "now"

\* Lines 124-131: the i-th mock organic result (i counts from 1).
MockResult(i, q) ==
    [title |-> <<"Mock Result ">> \o DecimalDigits(i) \o <<" for ">> \o q,
     link |-> <<"https://example.com/result-">> \o DecimalDigits(i),
     snippet |-> <<"This is a mock search result ">> \o DecimalDigits(i)
                 \o <<" for query: ">> \o q
                 \o <<". Created for testing purposes when no API key is available.">>,
     position |-> i,
     source |-> "example.com",
     date |-> Today]

\* Lines 136-145: the mock knowledge graph.
MockKnowledgeGraph(q) ==
    [title |-> <<"Fact Check: ">> \o Strip(RemoveAll(q, FactCheck)),
     type |-> "Fact Check Result",
     description |-> "This is a mock fact check result generated for testing purposes. In a real search, this would contain relevant fact-checking information.",
     attributes |-> [Source |-> "Mock Fact Checker",
                     Rating |-> "Unverified - Mock Data",
                     Date |-> Today]]

\* d with d[key] = value set.
WithKey(d, key, value) ==
    [k \in DOMAIN d \cup {key} |-> IF k = key THEN value ELSE d[k]]

\* SearchAPIClient._generate_mock_results, lines 111-147.
generate_mock_results(q, n) ==
    LET mock_response ==
            [searchParameters |-> [q |-> q, gl |-> "us", hl |-> "en",
                                   num |-> n],
             organic |-> [i \in 1..Min(n, MockLimit) |-> MockResult(i, q)]]
    IN  IF Contains(Lower(q), FactCheck)
        THEN WithKey(mock_response, "knowledgeGraph", MockKnowledgeGraph(q))
        ELSE mock_response

\* Lines 168-174: one organic result, formatted.
FormatResult(r) ==
    [title |-> r.title, link |-> r.link, snippet |-> r.snippet,
     source |-> r.source, published_date |-> r.date]

\* SearchAPIClient._format_search_results, lines 159-187.
format_search_results(raw_results, q) ==
    LET organic == IF "organic" \in DOMAIN raw_results
                   THEN raw_results.organic ELSE <<>>
        formatted ==
            [query |-> q, timestamp |-> Now,
             results |-> [i \in 1..Len(organic) |-> FormatResult(organic[i])]]
    IN  IF "knowledgeGraph" \in DOMAIN raw_results
        THEN WithKey(formatted, "knowledge_graph",
                     [title |-> raw_results.knowledgeGraph.title,
                      type |-> raw_results.knowledgeGraph.type,
                      description |-> raw_results.knowledgeGraph.description,
                      attributes |-> raw_results.knowledgeGraph.attributes])
        ELSE formatted

\* One organic result of the search service.
Organic ==
    [title |-> <<"T">>, link |-> <<"L">>, snippet |-> <<"S">>,
     source |-> "s", date |-> Today]

\* What the search service answers with status 200: nothing, organic
\* results, organic results and a knowledge graph.
RawResults ==
    { [searchParameters |-> "p"],
      [searchParameters |-> "p", organic |-> <<Organic>>],
      [searchParameters |-> "p", organic |-> <<Organic, Organic>>,
       knowledgeGraph |-> [title |-> <<"K">>, type |-> "t",
                           description |-> "d", attributes |-> "a"]] }

\* Line 200-204: the fact-check query for the claim and the context.
FactCheckQuery(c, ctx) ==
    FactCheck \o <<" ", "\"">> \o c \o <<"\"">>
    \o (IF ctx # <<>> THEN <<" ">> \o ctx ELSE <<>>)

\* The API keys the environment and config.py may hold.
EnvKeys == {NoKey, "", "env-key"}
ConfigKeys == {NoKey, "config-key"}
ParamKeys == {NoKey, "param-key"}

\* Queries: "a", "fact check a", "a Fact Check", "factcheck".
SearchQueries ==
    { <<"a">>,
      FactCheck \o <<" ", "a">>,
      <<"a", " ", "F", "a", "c", "t", " ", "C", "h", "e", "c", "k">>,
      <<"f", "a", "c", "t", "c", "h", "e", "c", "k">> }

SearchClaims == { <<"a">>, <<"a", " ", "b">> }
SearchContexts == { <<>>, <<"c">> }

InitSearch ==
    /\ op \in {"search", "search_for_claim_verification", "tool"}
    /\ pc = IF op = "tool" THEN "tool_call" ELSE "client_call"
    /\ env_key \in EnvKeys
    /\ config_key \in ConfigKeys
    /\ search_client = None
    /\ constructed = <<>>
    /\ calls = <<>>
    /\ IF op = "search"
       THEN /\ query \in SearchQueries
            /\ num_results \in 0..MaxResults
            /\ claim = <<>>
            /\ search_context = <<>>
       ELSE /\ query = <<>>
            /\ num_results = 0
            /\ claim \in SearchClaims
            /\ search_context \in SearchContexts
    /\ http_requests = <<>>
    /\ search_calls = 0
    /\ search_result = None
    /\ formatted_results = None
    /\ tool_output = None
    /\ fuzzy_match = FALSE
    /\ normalized_claim = <<>>
    /\ claim_words = {}
    /\ best_match = None
    /\ best_match_score = Fraction(0, 1)
    /\ scan = 0
    /\ scored = 0
    /\ claim_match = None
    /\ ReflowIdle
    /\ CodecIdle
    /\ LocatorIdle
    /\ SpeakerIdle

\* create_search_client(api_key, mock_mode), lines 233-243.
CreateClient ==
    /\ pc = "client_call"
    /\ \E api_key \in ParamKeys, mock_mode \in BOOLEAN :
          search_client' = SearchAPIClient(api_key, mock_mode)
    /\ constructed' = Append(constructed, search_client')
    /\ pc' = IF op = "search" THEN "search_call" ELSE "verify_call"
    /\ UNCHANGED <<op, env_key, config_key, calls, query, num_results,
                   search_context, http_requests, search_calls, search_result,
                   formatted_results, tool_output>>
    /\ UNCHANGED <<reflowVars, codecVars, locatorVars, claimVars, speakerVars>>

\* Mutant: the test of the global is left out.
get_search_client_NoTest(objects) ==
    Append(objects, SearchAPIClient(env_key, env_key = NoKey))

\* transcript_mcp.get_search_client, lines 20-24: the client objects made
\* so far, after one more call, given the ones made before it.
get_search_client(objects) ==
    IF search_client = None
    THEN Append(objects, SearchAPIClient(env_key, env_key = NoKey))
    ELSE objects

\* transcript_mcp.get_search_client, lines 18-25: what a call does to the
\* global search_client; the call returns the global (line 25).
GetSearchClient ==
    /\ constructed' = get_search_client(constructed)
    /\ search_client' = IF constructed' # constructed
                        THEN constructed'[Len(constructed')]
                        ELSE search_client
    /\ calls' = Append(calls, [env |-> env_key, client |-> search_client'])

\* transcript_mcp.search_for_claim_verification, line 212.
ToolGetClient ==
    /\ pc = "tool_call"
    /\ GetSearchClient
    /\ pc' = "verify_call"
    /\ UNCHANGED <<op, env_key, config_key, query, num_results,
                   search_context, http_requests, search_calls, search_result,
                   formatted_results, tool_output>>
    /\ UNCHANGED <<reflowVars, codecVars, locatorVars, claimVars, speakerVars>>

\* The places search is called from: a caller of the client, the
\* fact-check search (line 207), the information search (line 225).
SearchCalls == {"search_call", "fact_search", "info_search"}

SearchReturnsTo(at) ==
    CASE at = "search_call" -> "search_done"
      [] at = "fact_search" -> "fact_returned"
      [] at = "info_search" -> "info_returned"

\* Mutant: a failure of the information search leaves the function too.
SearchRaisesTo_InformationPropagates(at) ==
    CASE at = "search_call" -> "search_raised"
      [] at = "fact_search" -> "verify_raised"
      [] at = "info_search" -> "verify_raised"

SearchRaisesTo(at) ==
    CASE at = "search_call" -> "search_raised"
      [] at = "fact_search" -> "verify_raised"
      [] at = "info_search" -> "info_raised"

SearchReturned(value) == [kind |-> "returned", value |-> value]
SearchRaised(kind, message) == [kind |-> kind, message |-> message]

\* Lines 67-70: no API key, mock mode: the mock results as they are.
SearchMock ==
    /\ pc \in SearchCalls
    /\ ~KeyTruthy(search_client.api_key)
    /\ search_client.mock_mode
    /\ search_result' =
          SearchReturned(generate_mock_results(query, num_results))
    /\ search_calls' = search_calls + 1
    /\ pc' = SearchReturnsTo(pc)
    /\ UNCHANGED <<op, env_key, config_key, search_client, query,
                   num_results, search_context, http_requests,
                   formatted_results, tool_output>>
    /\ UNCHANGED <<reflowVars, codecVars, locatorVars, claimVars, clientVars,
                   speakerVars>>

\* Lines 67-72: no API key, no mock mode.
SearchUnconfigured ==
    /\ pc \in SearchCalls
    /\ ~KeyTruthy(search_client.api_key)
    /\ ~search_client.mock_mode
    /\ search_result' =
          SearchRaised("SearchAPIError", "No Search API key configured")
    /\ search_calls' = search_calls + 1
    /\ pc' = SearchRaisesTo(pc)
    /\ UNCHANGED <<op, env_key, config_key, search_client, query,
                   num_results, search_context, http_requests,
                   formatted_results, tool_output>>
    /\ UNCHANGED <<reflowVars, codecVars, locatorVars, claimVars, clientVars,
                   speakerVars>>

\* Lines 74-96: the request is posted and answered with status 200.
SearchPost ==
    /\ pc \in SearchCalls
    /\ KeyTruthy(search_client.api_key)
    /\ http_requests' =
          Append(http_requests, [q |-> query, num |-> num_results])
    /\ \E raw_results \in RawResults :
          search_result' =
              SearchReturned(format_search_results(raw_results, query))
    /\ search_calls' = search_calls + 1
    /\ pc' = SearchReturnsTo(pc)
    /\ UNCHANGED <<op, env_key, config_key, search_client, query,
                   num_results, search_context, formatted_results,
                   tool_output>>
    /\ UNCHANGED <<reflowVars, codecVars, locatorVars, claimVars, clientVars,
                   speakerVars>>

\* Lines 84-99: the request is posted and fails: another status or an
\* aiohttp.ClientError give SearchAPIError, anything else goes through.
SearchPostFail ==
    /\ pc \in SearchCalls
    /\ KeyTruthy(search_client.api_key)
    /\ http_requests' =
          Append(http_requests, [q |-> query, num |-> num_results])
    /\ \E raised \in { SearchRaised("SearchAPIError",
                                    "Search API returned 500: error"),
                       SearchRaised("SearchAPIError",
                                    "Search request failed: error"),
                       SearchRaised("Exception", "error") } :
          search_result' = raised
    /\ search_calls' = search_calls + 1
    /\ pc' = SearchRaisesTo(pc)
    /\ UNCHANGED <<op, env_key, config_key, search_client, query,
                   num_results, search_context, formatted_results,
                   tool_output>>
    /\ UNCHANGED <<reflowVars, codecVars, locatorVars, claimVars, clientVars,
                   speakerVars>>

\* Lines 199-207: the fact-check query; search(query) is called.
VerifyBegin ==
    /\ pc = "verify_call"
    /\ query' = FactCheckQuery(claim, search_context)
    /\ num_results' = DefaultNumResults
    /\ pc' = "fact_search"
    /\ UNCHANGED <<op, env_key, config_key, search_client, search_context,
                   http_requests, search_calls, search_result, formatted_results,
                   tool_output>>
    /\ UNCHANGED <<reflowVars, codecVars, locatorVars, claimVars, clientVars,
                   speakerVars>>

\* Lines 209-225: the mock note, the result dict; search(claim) is called.
VerifyFactChecked ==
    /\ pc = "fact_returned"
    /\ LET results == IF search_client.mock_mode
                      THEN WithKey(search_result.value, "mock_mode", TRUE)
                      ELSE search_result.value
       IN  formatted_results' =
               [claim |-> claim,
                context |-> search_context,
                timestamp |-> Now,
                fact_check_results |-> results,
                information_results |-> <<>>]
    /\ query' = claim
    /\ num_results' = DefaultNumResults
    /\ pc' = "info_search"
    /\ UNCHANGED <<op, env_key, config_key, search_client, search_context,
                   http_requests, search_calls, search_result, tool_output>>
    /\ UNCHANGED <<reflowVars, codecVars, locatorVars, claimVars, clientVars,
                   speakerVars>>

\* Lines 226, 230: the information results are filed; return.
VerifyInformed ==
    /\ pc = "info_returned"
    /\ formatted_results' =
          [formatted_results EXCEPT
               !.information_results = search_result.value]
    /\ pc' = "verify_done"
    /\ UNCHANGED <<op, env_key, config_key, search_client, query,
                   num_results, search_context, http_requests, search_calls,
                   search_result, tool_output>>
    /\ UNCHANGED <<reflowVars, codecVars, locatorVars, claimVars, clientVars,
                   speakerVars>>

\* Mutant: the handler files the error message as the information results.
VerifyInformationFailed_FilesError ==
    /\ pc = "info_raised"
    /\ formatted_results' =
          [formatted_results EXCEPT
               !.information_results = [error |-> search_result.message]]
    /\ pc' = "verify_done"
    /\ UNCHANGED <<op, env_key, config_key, search_client, query,
                   num_results, search_context, http_requests, search_calls,
                   search_result, tool_output>>
    /\ UNCHANGED <<reflowVars, codecVars, locatorVars, claimVars, clientVars,
                   speakerVars>>

\* Lines 227-230: any exception of the information search is logged.
VerifyInformationFailed ==
    /\ pc = "info_raised"
    /\ pc' = "verify_done"
    /\ UNCHANGED <<op, env_key, config_key, search_client, query,
                   num_results, search_context, http_requests, search_calls,
                   search_result, formatted_results, tool_output>>
    /\ UNCHANGED <<reflowVars, codecVars, locatorVars, claimVars, clientVars,
                   speakerVars>>

\* The notice of transcript_mcp line 217.
MockNotice == "\n[NOTE: Using mock search results for demonstration purposes. To use real search results, set the SEARCH_API_KEY environment variable.]\n"

\* dict.get(key, default)
Get(d, key, default) == IF key \in DOMAIN d THEN d[key] ELSE default

\* transcript_mcp.search_for_claim_verification, lines 215-223: the string
\* returned is the notice, if any, and the JSON text of the results.
ToolReturn ==
    /\ op = "tool"
    /\ pc = "verify_done"
    /\ tool_output' =
          [head |-> IF Get(formatted_results, "mock_mode", FALSE)
                    THEN MockNotice ELSE "",
           json |-> formatted_results]
    /\ pc' = "tool_done"
    /\ UNCHANGED <<op, env_key, config_key, search_client, query,
                   num_results, search_context, http_requests, search_calls,
                   search_result, formatted_results>>
    /\ UNCHANGED <<reflowVars, codecVars, locatorVars, claimVars, clientVars,
                   speakerVars>>

\* transcript_mcp.search_for_claim_verification, lines 224-227.
ToolError ==
    /\ op = "tool"
    /\ pc = "verify_raised"
    /\ tool_output' =
          [head |-> IF search_result.kind = "SearchAPIError"
                    THEN "Error: " ELSE "Unexpected error: ",
           message |-> search_result.message]
    /\ pc' = "tool_done"
    /\ UNCHANGED <<op, env_key, config_key, search_client, query,
                   num_results, search_context, http_requests, search_calls,
                   search_result, formatted_results>>
    /\ UNCHANGED <<reflowVars, codecVars, locatorVars, claimVars, clientVars,
                   speakerVars>>

NextSearch ==
    \/ CreateClient \/ ToolGetClient
    \/ SearchMock \/ SearchUnconfigured \/ SearchPost \/ SearchPostFail
    \/ VerifyBegin \/ VerifyFactChecked
    \/ VerifyInformed \/ VerifyInformationFailed
    \/ ToolReturn \/ ToolError

SpecSearch == InitSearch /\ [][NextSearch]_vars

---------------------------------------------------------------------------
(* The module-level search client of transcript_mcp, lines 14-25, over     *)
(* several calls of get_search_client.  The function holds no await, so a  *)
(* call runs to its end before the event loop runs anything else; between  *)
(* two calls the environment may change.                                   *)

\* Calls of get_search_client in one run of the server.
MaxCalls == 3

InitSingleton ==
    /\ op = "get_search_client"
    /\ pc = "serving"
    /\ env_key \in EnvKeys
    /\ config_key \in ConfigKeys
    /\ search_client = None
    /\ constructed = <<>>
    /\ calls = <<>>
    /\ query = <<>>
    /\ num_results = 0
    /\ search_context = <<>>
    /\ http_requests = <<>>
    /\ search_calls = 0
    /\ search_result = None
    /\ formatted_results = None
    /\ tool_output = None
    /\ ReflowIdle
    /\ CodecIdle
    /\ LocatorIdle
    /\ SpeakerIdle
    /\ ClaimIdle

\* A tool call reaches line 212: client = get_search_client().
ServeGetClient ==
    /\ pc = "serving"
    /\ Len(calls) < MaxCalls
    /\ GetSearchClient
    /\ UNCHANGED <<op, pc, env_key, config_key, query, num_results,
                   search_context, http_requests, search_calls, search_result,
                   formatted_results, tool_output>>
    /\ UNCHANGED <<reflowVars, codecVars, locatorVars, claimVars, speakerVars>>

\* SEARCH_API_KEY is set, changed or removed between two calls.
SetEnvironment ==
    /\ pc = "serving"
    /\ env_key' \in EnvKeys \ {env_key}
    /\ UNCHANGED <<op, pc, config_key, search_client, clientVars, query,
                   num_results, search_context, http_requests, search_calls,
                   search_result, formatted_results, tool_output>>
    /\ UNCHANGED <<reflowVars, codecVars, locatorVars, claimVars, speakerVars>>

NextSingleton == ServeGetClient \/ SetEnvironment

SpecSingleton == InitSingleton /\ [][NextSingleton]_vars

---------------------------------------------------------------------------
(* Speaker attribution: identify_speakers(transcript, hints), which the    *)
(* tests import from transcript_lib.  Its patterns are the ones of         *)
(* section 4.3 of the specification: a capitalized word is an upper-case   *)
(* letter followed by lower-case letters, a name one or two of them        *)
(* separated by a space.  A speaker-occurrence mapping is a list of        *)
(* [speaker, starts] in the order the speakers were first seen.            *)

UpperCase ==
    {"A", "B", "C", "D", "E", "F", "G", "H", "I", "J", "K", "L", "M", "N",
     "O", "P", "Q", "R", "S", "T", "U", "V", "W", "X", "Y", "Z"}

LowerCase ==
    {"a", "b", "c", "d", "e", "f", "g", "h", "i", "j", "k", "l", "m", "n",
     "o", "p", "q", "r", "s", "t", "u", "v", "w", "x", "y", "z"}

\* The position of the last of the characters of class at k, k + 1, ...
RECURSIVE RunEnd(_, _, _)
RunEnd(s, k, class) ==
    IF k + 1 <= Len(s) /\ s[k + 1] \in class
    THEN RunEnd(s, k + 1, class) ELSE k

\* The end of the capitalized word that starts at position i; 0 if none.
CapitalizedWordEnd(s, i) ==
    IF i + 1 <= Len(s) /\ s[i] \in UpperCase /\ s[i + 1] \in LowerCase
    THEN RunEnd(s, i + 1, LowerCase) ELSE 0

\* The ends a name starting at position i may have, the longer first.
NameEnds(s, i) ==
    LET one == CapitalizedWordEnd(s, i)
        two == IF one # 0 /\ one + 1 <= Len(s) /\ s[one + 1] = Space
               THEN CapitalizedWordEnd(s, one + 2) ELSE 0
    IN  (IF two # 0 THEN <<two>> ELSE <<>>)
        \o (IF one # 0 THEN <<one>> ELSE <<>>)

\* The ends a word and the number that may follow it have, given that the
\* word ends at position e: "Speaker 12" before "Speaker".
NumberedEnds(s, e, numbered) ==
    (IF /\ numbered
        /\ e + 2 <= Len(s)
        /\ s[e + 1] = Space
        /\ IsDigit(s[e + 2])
     THEN <<RunEnd(s, e + 2, {s[k] : k \in {j \in 1..Len(s) :
                                                  IsDigit(s[j])}})>>
     ELSE <<>>)
    \o <<e>>

\* s begins with prefix.
StartsWith(s, prefix) ==
    Len(prefix) <= Len(s) /\ SubSeq(s, 1, Len(prefix)) = prefix

\* A label found at positions from..e of s, the pattern ending at e + 1.
Label(s, from, e) ==
    [speaker |-> SubSeq(s, from, e), matched |-> e + 1]

\* The label ending at the first of ends that closer follows; None if none.
RECURSIVE Closed(_, _, _, _)
Closed(s, from, ends, closer) ==
    IF ends = <<>> THEN None
    ELSE IF Head(ends) + 1 <= Len(s) /\ s[Head(ends) + 1] = closer
         THEN Label(s, from, Head(ends))
         ELSE Closed(s, from, Tail(ends), closer)

\* Pattern 1: the first hint that, followed by a colon, begins the text.
RECURSIVE HintLabel(_, _)
HintLabel(s, names) ==
    IF names = <<>> THEN None
    ELSE IF StartsWith(s, Head(names) \o <<":">>)
         THEN Label(s, 1, Len(Head(names)))
         ELSE HintLabel(s, Tail(names))

\* Mutant: the name and its colon are looked for anywhere in the text.
RECURSIVE NameColonFrom(_, _)
NameColonFrom(s, i) ==
    IF i > Len(s) THEN None
    ELSE IF Closed(s, i, NameEnds(s, i), ":") # None
         THEN Closed(s, i, NameEnds(s, i), ":")
         ELSE NameColonFrom(s, i + 1)

NameColon_Anywhere(s) == NameColonFrom(s, 1)

\* Pattern 2: a name and a colon at the start of the text.
NameColon(s) == Closed(s, 1, NameEnds(s, 1), ":")

\* Patterns 3 and 4: a name between brackets at the start of the text.
NameBracketed(s, opener, closer) ==
    IF s # <<>> /\ s[1] = opener
    THEN Closed(s, 2, NameEnds(s, 2), closer) ELSE None

\* "Speaker"
SpeakerWord ==
    << "S", "p", "e", "a", "k", "e", "r" >>

\* Interviewer, Interviewee, Host, Guest, Moderator, Participant
RoleWords ==
    << <<"I", "n", "t", "e", "r", "v", "i", "e", "w", "e", "r">>,
       <<"I", "n", "t", "e", "r", "v", "i", "e", "w", "e", "e">>,
       <<"H", "o", "s", "t">>,
       <<"G", "u", "e", "s", "t">>,
       <<"M", "o", "d", "e", "r", "a", "t", "o", "r">>,
       <<"P", "a", "r", "t", "i", "c", "i", "p", "a", "n", "t">> >>

\* A word, the number that may follow it, and a colon, at the start.
WordColon(s, word, numbered) ==
    IF StartsWith(s, word)
    THEN Closed(s, 1, NumberedEnds(s, Len(word), numbered), ":") ELSE None

\* Pattern 6: the first role word that fits; Participant may be numbered.
RECURSIVE RoleLabel(_, _)
RoleLabel(s, k) ==
    IF k > Len(RoleWords) THEN None
    ELSE IF WordColon(s, RoleWords[k], k = Len(RoleWords)) # None
         THEN WordColon(s, RoleWords[k], k = Len(RoleWords))
         ELSE RoleLabel(s, k + 1)

\* The patterns in their priority order.
SpeakerPatterns == 1..6

PatternLabel(k, s, names) ==
    CASE k = 1 -> HintLabel(s, names)
      [] k = 2 -> NameColon(s)
      [] k = 3 -> NameBracketed(s, "[", "]")
      [] k = 4 -> NameBracketed(s, "(", ")")
      [] k = 5 -> WordColon(s, SpeakerWord, TRUE)
      [] k = 6 -> RoleLabel(s, 1)

\* The patterns that match the text.
Matching(s, names) ==
    {k \in SpeakerPatterns : PatternLabel(k, s, names) # None}

\* The pattern a cue is classified by: the first that matches; 0 if none.
FirstPattern(s, names) ==
    IF Matching(s, names) = {} THEN 0
    ELSE CHOOSE k \in Matching(s, names) :
             \A j \in Matching(s, names) : k <= j

\* The cue with its speaker, the matched prefix taken off its text and the
\* rest trimmed.
Labeled(cue, label) ==
    [text |-> Strip(SubSeq(cue.text, label.matched + 1, Len(cue.text))),
     start |-> cue.start,
     duration |-> cue.duration,
     speaker |-> label.speaker]

\* The position of a speaker in the occurrence mapping; 0 if it is new.
SpeakerPosition(mapping, name) ==
    IF \E k \in 1..Len(mapping) : mapping[k].speaker = name
    THEN CHOOSE k \in 1..Len(mapping) : mapping[k].speaker = name
    ELSE 0

\* The mapping with one more occurrence of the speaker.
WithOccurrence(mapping, name, start) ==
    LET k == SpeakerPosition(mapping, name)
    IN  IF k = 0
        THEN Append(mapping, [speaker |-> name, starts |-> <<start>>])
        ELSE [mapping EXCEPT ![k].starts = Append(@, start)]

\* Longest caption track handed to identify_speakers.
MaxSpeakerCues == 2

\* "John: Hello"
TextJohnHello == <<"J", "o", "h", "n", ":", " ", "H", "e", "l", "l", "o">>

\* "Sarah: Thanks, John."
TextSarahThanks ==
    <<"S", "a", "r", "a", "h", ":", " ", "T", "h", "a", "n", "k", "s", ",", " ", "J", "o", "h", "n", ".">>

\* Cue texts: the two above, "Mary Ann: hi", "[John] hi", "(Sarah) hi",
\* "Speaker 1: hi", "Participant 2: hi", "Host: hi", "bob: hi",
\* "so, John: hi", "hi [John]" and "".
SpeakerTexts ==
    { TextJohnHello,
      TextSarahThanks,
      <<"M", "a", "r", "y", " ", "A", "n", "n", ":", " ", "h", "i">>,
      <<"[", "J", "o", "h", "n", "]", " ", "h", "i">>,
      <<"(", "S", "a", "r", "a", "h", ")", " ", "h", "i">>,
      <<"S", "p", "e", "a", "k", "e", "r", " ", "1", ":", " ", "h", "i">>,
      <<"P", "a", "r", "t", "i", "c", "i", "p", "a", "n", "t", " ", "2", ":", " ", "h", "i">>,
      <<"H", "o", "s", "t", ":", " ", "h", "i">>,
      <<"b", "o", "b", ":", " ", "h", "i">>,
      <<"s", "o", ",", " ", "J", "o", "h", "n", ":", " ", "h", "i">>,
      <<"h", "i", " ", "[", "J", "o", "h", "n", "]">>,
      <<>> }

\* Hints: none; "bob" and "John".
SpeakerHints == { <<>>, <<<<"b", "o", "b">>, <<"J", "o", "h", "n">>>> }

\* Caption tracks whose cues follow each other every four seconds.
RECURSIVE SpeakerTranscripts(_)
SpeakerTranscripts(n) ==
    IF n = 0 THEN {<<>>}
    ELSE LET shorter == SpeakerTranscripts(n - 1)
         IN  shorter \cup
             { Append(t, Cue(x, (n - 1) * Sec(4), Sec(4))) :
                 t \in {s \in shorter : Len(s) = n - 1},
                 x \in SpeakerTexts }

InitSpeakers ==
    /\ op = "identify_speakers"
    /\ pc = "speakers_loop"
    /\ cues \in SpeakerTranscripts(MaxSpeakerCues)
    /\ hints \in SpeakerHints
    /\ labeled_cues = <<>>
    /\ speakers = <<>>
    /\ matched_by = <<>>
    /\ target_time = 0
    /\ context_seconds = 0
    /\ segment = <<>>
    /\ fetches = <<>>
    /\ metadata = None
    /\ video_chapters = <<>>
    /\ current_chapter = None
    /\ response = None
    /\ ReflowIdle
    /\ CodecIdle
    /\ ClaimIdle
    /\ SearchIdle

\* The cue in hand matches a pattern: it is labeled by the first one.
AttributeSpeaker ==
    /\ pc = "speakers_loop"
    /\ Len(labeled_cues) < Len(cues)
    /\ LET cue == cues[Len(labeled_cues) + 1]
           k == FirstPattern(cue.text, hints)
           label == PatternLabel(k, cue.text, hints)
       IN  /\ k # 0
           /\ labeled_cues' = Append(labeled_cues, Labeled(cue, label))
           /\ speakers' = WithOccurrence(speakers, label.speaker, cue.start)
           /\ matched_by' = Append(matched_by, k)
    /\ UNCHANGED <<op, pc, hints>>
    /\ UNCHANGED <<reflowVars, codecVars, locatorVars, claimVars, searchVars>>

\* The cue in hand matches no pattern: it passes through as it is.
PassThrough ==
    /\ pc = "speakers_loop"
    /\ Len(labeled_cues) < Len(cues)
    /\ LET cue == cues[Len(labeled_cues) + 1]
       IN  /\ FirstPattern(cue.text, hints) = 0
           /\ labeled_cues' = Append(labeled_cues, cue)
    /\ matched_by' = Append(matched_by, 0)
    /\ UNCHANGED <<op, pc, hints, speakers>>
    /\ UNCHANGED <<reflowVars, codecVars, locatorVars, claimVars, searchVars>>

\* Every cue has been classified: the labeled cues and the mapping are
\* returned.
SpeakersReturn ==
    /\ pc = "speakers_loop"
    /\ Len(labeled_cues) = Len(cues)
    /\ pc' = "speakers_done"
    /\ UNCHANGED <<op, speakerVars>>
    /\ UNCHANGED <<reflowVars, codecVars, locatorVars, claimVars, searchVars>>

NextSpeakers == AttributeSpeaker \/ PassThrough \/ SpeakersReturn

SpecSpeakers == InitSpeakers /\ [][NextSpeakers]_vars

---------------------------------------------------------------------------
(* Reading the returned lines.                                             *)

PositionOf(s, ch) == CHOOSE k \in 1..Len(s) : s[k] = ch

\* The whole second a window line "[MM:SS] ..." shows, read back from it.
ShownSeconds(line) ==
    LET ts == line.timestamp
        colon == PositionOf(ts, ":")
    IN  DecimalValue(SubSeq(ts, 2, colon - 1)) * 60
        + DecimalValue(SubSeq(ts, colon + 1, Len(ts) - 1))

IsSegment(line) == line.kind = "segment"
IsChapter(line) == line.kind = "chapter"

Returned == pc = "fmt_done"

RECURSIVE ConcatTexts(_)
ConcatTexts(texts) ==
    IF texts = <<>> THEN <<>>
    ELSE Head(texts) \o ConcatTexts(Tail(texts))

WithoutSpaces(text) == SelectSeq(text, LAMBDA ch : ch # Space)

\* The texts of the window lines of the result, in output order.
WindowTexts ==
    LET lines == SelectSeq(result, IsSegment)
    IN  [k \in 1..Len(lines) |-> lines[k].text]

\* The texts of the cues, in input order.
CueTexts == [k \in 1..Len(transcript) |-> transcript[k].text]

\* The chapter lines of the result, in output order.
ChapterLinesOut == SelectSeq(result, IsChapter)

\* The cues of the window the loop is filling.
WindowCues == window_first..idx

RECURSIVE SumDurations(_)
SumDurations(S) ==
    IF S = {} THEN 0
    ELSE LET k == CHOOSE x \in S : TRUE
         IN  transcript[k].duration + SumDurations(S \ {k})

PositiveCues(S) == {k \in S : transcript[k].duration > 0}

---------------------------------------------------------------------------
(* Claims about format_transcript_text.                                    *)

\* C1: in the returned lines every chapter line stands immediately before
\* the window line that triggered it (only chapter lines in between, and
\* that window's shown start is at or after the chapter's start) and after
\* the lines of all earlier windows (whose shown starts lie before the
\* chapter's start).
C1_ChapterBeforeItsWindow ==
    Returned =>
        \A p \in 1..Len(result) :
            IsChapter(result[p]) =>
                /\ \E q \in (p + 1)..Len(result) :
                      /\ IsSegment(result[q])
                      /\ \A r \in (p + 1)..(q - 1) : IsChapter(result[r])
                      /\ result[p].start_time <= Sec(ShownSeconds(result[q]))
                /\ \A r \in 1..(p - 1) :
                      IsSegment(result[r]) =>
                          Sec(ShownSeconds(result[r])) < result[p].start_time

\* C2: the texts of the returned window lines, concatenated, hold the text
\* of every cue exactly once and in cue order (the spaces of the join
\* apart); the window lines are there with and without chapter lines.
C2_ReflowNonLoss ==
    Returned =>
        /\ WithoutSpaces(ConcatTexts(WindowTexts)) = ConcatTexts(CueTexts)
        /\ SelectSeq(result, IsSegment) = merged_segments

C2_Witness ==
    /\ Returned
    /\ Len(transcript) = 3
    /\ Len(SelectSeq(result, IsSegment)) = 2
    /\ transcript[1].text # <<>>
    /\ transcript[2].text = <<>>
    /\ transcript[3].text # <<>>
    /\ window_first = 3

\* C3: the window being filled (every emitted window is this one when it
\* is closed) has a summed duration equal to current_duration, at most the
\* threshold plus the duration of one of its cues, and at most the
\* threshold when two or more of its cues have a positive duration.
C3_WindowBound ==
    (pc \in {"fmt_loop", "fmt_done"} /\ idx >= 1) =>
        /\ WindowCues # {}
        /\ SumDurations(WindowCues) = current_duration
        /\ \E k \in WindowCues :
              current_duration <= MergeThreshold + transcript[k].duration
        /\ Cardinality(PositiveCues(WindowCues)) >= 2
              => current_duration <= MergeThreshold

C3_Witness ==
    /\ Returned
    /\ Cardinality(WindowCues) = 3
    /\ Cardinality(PositiveCues(WindowCues)) = 2
    /\ current_duration = MergeThreshold
    /\ Len(merged_segments) = 1

\* C4: the chapter lines of the returned text are in non-decreasing order
\* of start time, and no element of the chapter list passed in gives more
\* than one chapter line.
C4_ChapterOrdering ==
    Returned =>
        LET out == ChapterLinesOut
        IN  /\ \A i, j \in 1..Len(out) :
                  i < j => out[i].start_time <= out[j].start_time
            /\ \A i, j \in 1..Len(out) :
                  out[i].title = out[j].title => i = j
            /\ \A i \in 1..Len(out) :
                  \E k \in 1..Len(chapters_at_call) :
                      /\ chapters_at_call[k].title = out[i].title
                      /\ chapters_at_call[k].start_time = out[i].start_time

C4_Witness ==
    /\ Returned
    /\ Len(ChapterLinesOut) = 2
    /\ Len(chapters_at_call) = 2
    /\ chapters_at_call[1].start_time > chapters_at_call[2].start_time
    /\ chapter_lines[1][1] < chapter_lines[2][1]

\* C5: every chapter whose start time is at or before the shown start of
\* the last emitted window (the final partial window included) has a
\* chapter line in the returned text.
C5_TrailingChapterRule ==
    (Returned /\ merged_segments # <<>>) =>
        \A k \in 1..Len(chapters_at_call) :
            chapters_at_call[k].start_time
                <= Sec(ShownSeconds(merged_segments[Len(merged_segments)]))
            => \E p \in 1..Len(result) :
                  /\ IsChapter(result[p])
                  /\ result[p].title = chapters_at_call[k].title

\* C6: the caller's chapter list holds the same elements in the same order
\* as when it was passed.
C6_ChapterListUntouched == Returned => chapters = chapters_at_call

\* C7: format_transcript_text never raises, whatever the cues.
C7_NeverRaises == pc # "fmt_raised"

\* The bracketed form of a clock string.
Bracketed(clock) == <<"[">> \o clock \o <<"]">>

\* C11: the timestamp of every emitted window line is the strict rendering
\* format_timestamp(s) of the start s of one of the cues (every window
\* starts with a cue), and that of the last window, once returned, is the
\* strict rendering of the start of the window's first cue: MM:SS below
\* one hour, HH:MM:SS from one hour on.
C11_WindowTimestampStrict ==
    /\ \A p \in 1..Len(merged_segments) :
          \E k \in 1..Len(transcript) :
              merged_segments[p].timestamp
                  = Bracketed(format_timestamp(transcript[k].start))
    /\ (Returned /\ current_text # <<>>)
          => merged_segments[Len(merged_segments)].timestamp
                 = Bracketed(format_timestamp(current_start))

---------------------------------------------------------------------------
(* Claims about the timestamp codec.                                       *)

\* The largest whole second the strict round trip is stated for (99:59:59).
StrictRoundTripMax == 100 * 3600 - 1

\* C10: parsing the strict rendering of s gives s back for every whole
\* second s up to 359999, and parsing the compact rendering of s gives s
\* back for every whole second s >= 0; neither rendering is rejected.
C10_RoundTrip ==
    /\ (pc \in {"strict_parsed", "strict_rejected"}
            /\ seconds_in <= StrictRoundTripMax)
          => (pc = "strict_parsed" /\ parsed = seconds_in)
    /\ pc \in {"compact_parsed", "compact_rejected"}
          => (pc = "compact_parsed" /\ parsed = seconds_in)

C10_Witness ==
    /\ pc = "strict_parsed"
    /\ seconds_in = StrictRoundTripMax
    /\ timestamp = <<"9", "9", ":", "5", "9", ":", "5", "9">>
    /\ parsed = seconds_in

\* The value the two accepted shapes stand for: m*60+s, h*3600+m*60+s.
ClockValue(s) ==
    LET parts == SplitColon(s)
    IN  IF Len(parts) = 2
        THEN DecimalValue(parts[1]) * 60 + DecimalValue(parts[2])
        ELSE DecimalValue(parts[1]) * 3600 + DecimalValue(parts[2]) * 60
             + DecimalValue(parts[3])

\* C12: timestamp_to_seconds returns exactly for the strings of the shape
\* digits ':' two digits or digits ':' two digits ':' two digits, with the
\* value m*60+s resp. h*3600+m*60+s, and raises for every other string.
C12_ParseExactlyTwoShapes ==
    pc \in {"given_parsed", "given_rejected"} =>
        IF IsMinutesSeconds(timestamp) \/ IsHoursMinutesSeconds(timestamp)
        THEN pc = "given_parsed" /\ parsed = ClockValue(timestamp)
        ELSE pc = "given_rejected"

---------------------------------------------------------------------------
(* Claims about the segment locator.                                       *)

\* The closed interval of a cue meets the closed range around the target.
Intersects(item, target, context) ==
    /\ item.start <= RangeEnd(target, context)
    /\ ItemEnd(item) >= RangeStart(target, context)

\* C8: find_transcript_segment returns, in track order, exactly the cues
\* whose interval [start, start+duration] meets the range
\* [max(0, target-radius), target+radius].
C8_SegmentSelection ==
    pc = "find_done" =>
        segment = SelectSeq(cues, LAMBDA item :
                                Intersects(item, target_time, context_seconds))

\* The cue spanning [25, 35] is selected for target 36 and radius 2, by its
\* end alone; the cue starting at 39 is not.
C8_Witness ==
    /\ pc = "find_done"
    /\ target_time = 36
    /\ context_seconds = 2
    /\ Len(cues) = 2
    /\ cues[1].start = Sec(25) /\ ItemEnd(cues[1]) = Sec(35)
    /\ cues[2].start = Sec(39)
    /\ segment = <<cues[1]>>

\* A valid clock string: exactly M:SS or H:MM:SS.
ValidClock(s) == IsMinutesSeconds(s) \/ IsHoursMinutesSeconds(s)

\* C13: a call of extract_transcript_segment whose timestamp is not a valid
\* clock string gets no further than the invalid-timestamp-format error,
\* and no call to the caption, metadata or chapter source is ever made.
C13_InvalidTimestampBeforeFetch ==
    (op = "extract_transcript_segment" /\ ~ValidClock(timestamp)) =>
        /\ pc \in {"x_call", "x_value_error"}
        /\ fetches = <<>>

\* The call to this source has been made and it failed / succeeded.
FetchFailed(call) ==
    \E k \in 1..Len(fetches) : fetches[k].call = call /\ ~fetches[k].ok
FetchSucceeded(call) ==
    \E k \in 1..Len(fetches) : fetches[k].call = call /\ fetches[k].ok

\* C14: once the caption fetch has succeeded, extract_transcript_segment
\* does not abort, and the result it returns has the formatted text of the
\* cues selected around the target, whatever the metadata and chapter
\* fetches did; a failed metadata fetch gives "Unknown" for video_title and
\* author, a failed chapter fetch gives a null chapter.
C14_NonCriticalDegradation ==
    (op = "extract_transcript_segment" /\ FetchSucceeded("get_transcript")) =>
        /\ pc # "fmt_raised"
        /\ pc = "x_done" =>
              /\ segment = find_transcript_segment(cues, target_time,
                                                    context_seconds)
              /\ transcript = segment
              /\ response.segment = result
              /\ FetchFailed("get_video_metadata") =>
                    /\ response.video_title = "Unknown"
                    /\ response.author = "Unknown"
              /\ FetchFailed("get_chapter_markers") =>
                    response.chapter = None

\* The chapter step of extract_transcript_segment is over.
ChaptersResolved ==
    /\ op = "extract_transcript_segment"
    /\ fetches # <<>>
    /\ fetches[Len(fetches)].call = "get_chapter_markers"

ChaptersFetched == ChaptersResolved /\ fetches[Len(fetches)].ok

\* The markers that start at or before the target instant.
StartedBy(list, target) ==
    {k \in 1..Len(list) : list[k].start_time <= Sec(target)}

\* C9: the chapter reported is the last of the fetched markers whose start
\* time is at or before the target (its start never lies after the target),
\* and none is reported exactly when no marker starts at or before it.
C9_EnclosingChapter ==
    ChaptersFetched =>
        LET started == StartedBy(video_chapters, target_time)
        IN  IF started = {}
            THEN current_chapter = None
            ELSE current_chapter =
                     video_chapters[CHOOSE k \in started :
                                        \A j \in started : j <= k]

---------------------------------------------------------------------------
(* Claims about the claim locator.                                         *)

ClaimReturned == op = "find_claim_in_transcript" /\ pc = "claim_done"

CarriesScore(match) == "match_score" \in DOMAIN match

\* The claim, lower-cased and trimmed, is a substring of the lower-cased
\* text of cue k.
ContainsClaim(k) ==
    LET needle == Strip(Lower(claim))
        text == Lower(cues[k].text)
    IN  \E i \in 0..(Len(text) - Len(needle)) :
            SubSeq(text, i + 1, i + Len(needle)) = needle

ExactCues == {k \in 1..Len(cues) : ContainsClaim(k)}

First(S) == CHOOSE k \in S : \A j \in S : k <= j

\* The numerator of the overlap score of cue k: the tokens of the claim
\* among the tokens of the cue; the denominator: the tokens of the claim.
Overlap(k) ==
    Cardinality(WordSet(Strip(Lower(claim)))
                \cap WordSet(Lower(cues[k].text)))
ClaimTokens == Cardinality(WordSet(Strip(Lower(claim))))

\* The cues whose overlap score is the maximum over the track.
BestCues == {k \in 1..Len(cues) : \A j \in 1..Len(cues) :
                                     Overlap(j) <= Overlap(k)}

\* The result naming cue k, without a score.
MatchOf(k) ==
    [timestamp |-> seconds_to_timestamp(IntSec(cues[k].start)),
     timestamp_seconds |-> IntSec(cues[k].start),
     context |-> cues[k].text]

\* C15: if some cue contains the lower-cased, trimmed claim, the fuzzy step
\* never scores a cue, and the result is the first such cue in track order,
\* with timestamp_seconds = int(start), its raw text as context and no
\* match_score, whatever the fuzzy flag.
C15_ExactMatchPrecedence ==
    (op = "find_claim_in_transcript" /\ ExactCues # {}) =>
        /\ scored = 0
        /\ pc # "claim_fuzzy"
        /\ pc = "claim_done" => claim_match = MatchOf(First(ExactCues))

\* "b e" is inside "ab e", the first cue, which shares one token of two
\* with it; the second cue, "e b a", shares both.
C15_Witness ==
    /\ ClaimReturned
    /\ fuzzy_match
    /\ claim = <<"b", " ", "e">>
    /\ Len(cues) = 2
    /\ cues[1].text = <<"a", "b", " ", "e">>
    /\ cues[2].text = <<"e", " ", "b", " ", "a">>
    /\ claim_match = MatchOf(1)
    /\ 2 * Overlap(1) = ClaimTokens
    /\ Overlap(2) = ClaimTokens

\* C16: when no cue contains the claim and fuzzy matching is enabled, the
\* result is the earliest cue attaining the maximum overlap score, with
\* that score, if the maximum is strictly greater than one half, and no
\* match otherwise.
C16_FuzzyFallback ==
    (ClaimReturned /\ ExactCues = {} /\ fuzzy_match) =>
        IF cues # <<>> /\ 2 * Overlap(First(BestCues)) > ClaimTokens
        THEN LET k == First(BestCues)
             IN  /\ CarriesScore(claim_match)
                 /\ [f \in {"timestamp", "timestamp_seconds", "context"}
                        |-> claim_match[f]] = MatchOf(k)
                 /\ claim_match.match_score.num = Overlap(k)
                 /\ claim_match.match_score.den = ClaimTokens
        ELSE claim_match = None

\* "c b a" against "A b", "a b c d", "a b c d": two of three tokens, then
\* three of three twice; the second cue is returned.
C16_Witness ==
    /\ ClaimReturned
    /\ claim = <<"c", " ", "b", " ", "a">>
    /\ Len(cues) = 3
    /\ cues[1].text = <<"A", " ", "b">>
    /\ cues[2].text = <<"a", " ", "b", " ", "c", " ", "d">>
    /\ cues[3].text = cues[2].text
    /\ CarriesScore(claim_match)
    /\ claim_match.timestamp_seconds = IntSec(cues[2].start)
    /\ claim_match.match_score = Fraction(3, 3)

\* C17: a result with a match_score comes from the fuzzy step (fuzzy matching
\* enabled, no cue containing the claim), its score is greater than one
\* half and at most one, and it is the overlap score of a cue with the
\* returned context at the returned second; a result without one is an
\* exact match; with fuzzy matching disabled no result carries a score.
C17_MatchScoreInvariant ==
    (ClaimReturned /\ claim_match # None) =>
        IF CarriesScore(claim_match)
        THEN /\ fuzzy_match
             /\ ExactCues = {}
             /\ scored = Len(cues)
             /\ 2 * claim_match.match_score.num > claim_match.match_score.den
             /\ claim_match.match_score.num <= claim_match.match_score.den
             /\ \E k \in 1..Len(cues) :
                   /\ cues[k].text = claim_match.context
                   /\ IntSec(cues[k].start) = claim_match.timestamp_seconds
                   /\ claim_match.match_score.num = Overlap(k)
                   /\ claim_match.match_score.den = ClaimTokens
        ELSE /\ ExactCues # {}
             /\ claim_match = MatchOf(First(ExactCues))

\* "a a b x" has three distinct tokens; "A b" holds two of them.
C17_Witness ==
    /\ ClaimReturned
    /\ claim = <<"a", " ", "a", " ", "b", " ", "x">>
    /\ Len(cues) = 2
    /\ cues[1].text = <<>>
    /\ cues[2].text = <<"A", " ", "b">>
    /\ CarriesScore(claim_match)
    /\ claim_match.match_score = Fraction(2, 3)
    /\ claim_match.context = cues[2].text

\* The claim is empty or holds whitespace only.
DegenerateClaim == \A k \in 1..Len(claim) : IsSpace(claim[k])

\* C18: for an empty or whitespace-only claim and a non-empty track, the
\* result is the very first cue as an exact match, without a score and
\* without the fuzzy step scoring anything, whatever the cue texts and the
\* fuzzy flag.
C18_DegenerateClaim ==
    (ClaimReturned /\ DegenerateClaim /\ cues # <<>>) =>
        /\ claim_match = MatchOf(1)
        /\ ~CarriesScore(claim_match)
        /\ scored = 0

\* A whitespace-only claim against a track whose first cue has no text.
C18_Witness ==
    /\ ClaimReturned
    /\ claim = <<" ", Newline>>
    /\ fuzzy_match
    /\ Len(cues) = 2
    /\ cues[1].text = <<>>
    /\ cues[2].text # <<>>
    /\ claim_match = MatchOf(1)

---------------------------------------------------------------------------
(* Claims about the search client.                                         *)

\* The client holds no API key and mock mode is enabled.
MockClient ==
    /\ search_client # None
    /\ ~KeyTruthy(search_client.api_key)
    /\ search_client.mock_mode

\* C19: with no API key and mock mode enabled, the value returned by
\* search_for_claim_verification has a top-level mock_mode flag that is
\* true, together with fact_check_results and information_results, and the
\* output of the MCP tool begins with the mock notice.
C19_MockModeTagged ==
    /\ (pc = "verify_done" /\ MockClient) =>
          /\ {"fact_check_results", "information_results"}
                 \subseteq DOMAIN formatted_results
          /\ "mock_mode" \in DOMAIN formatted_results
          /\ formatted_results.mock_mode = TRUE
    /\ (op = "tool" /\ pc = "tool_done" /\ MockClient) =>
          tool_output.head = MockNotice

\* C20: in mock mode without an API key, search(query, n) returns a value
\* of the shape real searches return, {query, timestamp, results,
\* knowledge_graph?}: a results list whose every entry has a title
\* containing the query, and a knowledge-graph block whenever the query
\* contains "fact check" in any case.
C20_MockSearchStructure ==
    (op = "search" /\ MockClient /\ pc \in {"search_done", "search_raised"})
    =>  /\ pc = "search_done"
        /\ LET value == search_result.value
            IN  /\ "results" \in DOMAIN value
                /\ \A i \in 1..Len(value.results) :
                      Contains(value.results[i].title, query)
                /\ Contains(Lower(query), FactCheck)
                      => "knowledge_graph" \in DOMAIN value
                /\ DOMAIN value \subseteq
                      {"query", "timestamp", "results", "knowledge_graph"}

\* search_for_claim_verification is over: it raised or returned (and the
\* tool, if it was the caller, has answered).
VerifyOver ==
    /\ op \in {"search_for_claim_verification", "tool"}
    /\ pc \in {"verify_raised", "verify_done", "tool_done"}

\* The search that ended last raised.
LastSearchRaised ==
    search_result # None /\ search_result.kind # "returned"

\* C21 as stated: whatever becomes of the fact-check search, the request
\* returns a result (no failure reaches the caller) and the search called
\* last is the informational one, with the claim as its query.
C21_IndependentSearches ==
    VerifyOver =>
        /\ formatted_results # None
        /\ query = claim
        /\ (pc = "tool_done" => "json" \in DOMAIN tool_output)

\* C21 as amended: a failure of the fact-check search leaves
\* search_for_claim_verification as it is, no result is built and no
\* informational search is started; a failure of the informational search
\* is caught: the request returns, information_results being empty.
C21_FactCheckFailurePropagates ==
    /\ pc = "verify_raised" =>
          /\ LastSearchRaised
          /\ query = FactCheckQuery(claim, search_context)
          /\ formatted_results = None
          /\ search_calls = 1
    /\ (pc = "verify_done" /\ LastSearchRaised) =>
          /\ query = claim
          /\ search_calls = 2
          /\ formatted_results # None
          /\ formatted_results.information_results = <<>>

\* The search service has failed the fact-check request of a client with
\* an API key.
C21_Witness ==
    /\ pc = "verify_raised"
    /\ KeyTruthy(search_client.api_key)
    /\ Len(http_requests) = 1
    /\ search_result.message = "Search API returned 500: error"

\* The client holds no API key and mock mode is disabled.
UnconfiguredClient ==
    /\ search_client # None
    /\ search_client.api_key \in {NoKey, ""}
    /\ ~search_client.mock_mode

\* The positions at which a call of search, of search_for_claim_verification
\* or of the tool is over.
SearchOver ==
    pc \in {"search_done", "search_raised", "verify_done", "verify_raised",
            "tool_done"}

\* C22: with no API key resolved and mock mode disabled, search and
\* search_for_claim_verification raise SearchAPIError("No Search API key
\* configured"): nothing is returned, search is entered once and never
\* again, no request is posted, and the MCP tool answers "Error: No Search
\* API key configured".
C22_SearchUnconfigured ==
    UnconfiguredClient =>
        /\ http_requests = <<>>
        /\ search_calls <= 1
        /\ pc \notin {"search_done", "fact_returned", "info_search",
                      "info_returned", "info_raised", "verify_done"}
        /\ SearchOver =>
              /\ search_calls = 1
              /\ search_result =
                     SearchRaised("SearchAPIError",
                                  "No Search API key configured")
              /\ formatted_results = None
        /\ (op = "tool" /\ pc = "tool_done") =>
              tool_output = [head |-> "Error: ",
                             message |-> "No Search API key configured"]

\* The tool with SEARCH_API_KEY set to the empty string and no config.py:
\* get_search_client leaves mock mode off, and no key is resolved.
C22_Witness ==
    /\ op = "tool"
    /\ pc = "tool_done"
    /\ env_key = ""
    /\ config_key = NoKey
    /\ UnconfiguredClient
    /\ tool_output.head = "Error: "

\* Every item of dict d is an item of dict e.
ItemsKept(d, e) ==
    /\ DOMAIN d \subseteq DOMAIN e
    /\ \A k \in DOMAIN d : e[k] = d[k]

\* C26: the informational search is called only from the point where the
\* fact-check search has returned and its results are filed under
\* fact_check_results; when the informational search raises (a
\* SearchAPIError or any other Exception), the next step of
\* search_for_claim_verification is its normal return, with the result
\* dict as it was: fact_check_results untouched and information_results
\* the empty mapping.
C26_InformationFailureSwallowed ==
    [][ /\ pc' = "info_search" =>
              /\ pc = "fact_returned"
              /\ search_result.kind = "returned"
              /\ ItemsKept(search_result.value,
                           formatted_results'.fact_check_results)
              /\ formatted_results'.information_results = <<>>
        /\ pc = "info_raised" =>
              /\ search_result.kind # "returned"
              /\ pc' = "verify_done"
              /\ formatted_results' = formatted_results
              /\ formatted_results.information_results = <<>>
              /\ search_calls = 2
      ]_vars

\* A client with an API key: the fact-check request was answered with two
\* results, the informational request failed with an exception that is not
\* a SearchAPIError, and the call has returned.
C26_Witness ==
    /\ op = "search_for_claim_verification"
    /\ pc = "verify_done"
    /\ search_result = SearchRaised("Exception", "error")
    /\ Len(http_requests) = 2
    /\ Len(formatted_results.fact_check_results.results) = 2
    /\ formatted_results.information_results = <<>>

\* The fact-check results of the request carry the tag mock_mode = True.
TaggedMock ==
    /\ formatted_results # None
    /\ Get(formatted_results.fact_check_results, "mock_mode", FALSE)

\* C30: results tagged mock_mode = True are the ones the mock generator
\* made for the fact-check query, and no request was posted for them;
\* whatever a client holding an API key obtains is never tagged.
C30_MockTagSoundness ==
    TaggedMock =>
        /\ ~KeyTruthy(search_client.api_key)
        /\ http_requests = <<>>
        /\ ItemsKept(generate_mock_results(
                         FactCheckQuery(claim, search_context),
                         DefaultNumResults),
                     formatted_results.fact_check_results)

---------------------------------------------------------------------------
(* Claims about the module-level search client.                            *)

\* C29: over any sequence of calls of get_search_client, with the
\* environment changing in between, at most one SearchAPIClient is made;
\* every call returns that one object, which the global holds from the
\* first call on; its api_key and mock_mode are the ones resolved from the
\* environment as it was at the first call.
C29_SingletonClient ==
    op = "get_search_client" =>
        /\ Len(constructed) <= 1
        /\ (calls = <<>>) = (search_client = None)
        /\ calls # <<>> =>
              LET first == calls[1].env
                  resolved == [api_key |-> Or(Or(first, config_key), first),
                               mock_mode |-> first = NoKey]
              IN  /\ constructed = <<resolved>>
                  /\ search_client = resolved
                  /\ \A k \in 1..Len(calls) : calls[k].client = resolved

\* Three calls: the variable unset at the first, set at the second,
\* empty at the third; the client is still the mock client of the first.
C29_Witness ==
    /\ op = "get_search_client"
    /\ Len(calls) = 3
    /\ calls[1].env = NoKey
    /\ calls[2].env = "env-key"
    /\ calls[3].env = ""
    /\ config_key = NoKey
    /\ calls[3].client = [api_key |-> NoKey, mock_mode |-> TRUE]

---------------------------------------------------------------------------
(* Claims about the fold of format_transcript_text.                        *)

\* C24: each step of the fold that consumes a cue closes and emits the
\* current window exactly when the accumulated duration is positive and,
\* with the cue's duration added, exceeds 10 seconds; the cue then starts
\* the next window, with its own start, text and duration.  Otherwise the
\* cue's text is joined to the window's text by one space (it becomes the
\* text if the window has none) and its duration is added.  The start the
\* current window will be stamped with is the start of its first cue.
C24_WindowClosingRule ==
    [][ (pc = "fmt_loop" /\ idx' = idx + 1) =>
          LET cue == transcript[idx + 1]
              closes == /\ current_duration > 0
                        /\ current_duration + cue.duration > Sec(10)
          IN  /\ closes <=>
                    Len(merged_segments') = Len(merged_segments) + 1
              /\ closes =>
                    /\ merged_segments' =
                           Append(merged_segments,
                                  SegmentLine(current_start, current_text))
                    /\ current_text' = cue.text
                    /\ current_start' = cue.start
                    /\ current_duration' = cue.duration
                    /\ window_first' = idx + 1
              /\ ~closes =>
                    /\ merged_segments' = merged_segments
                    /\ current_text' =
                           IF current_text = <<>> THEN cue.text
                           ELSE current_text \o <<" ">> \o cue.text
                    /\ current_duration' = current_duration + cue.duration
                    /\ window_first' = window_first
              /\ current_start' = transcript[window_first'].start
      ]_vars

\* Three cues of 5 seconds with gaps between their starts: the third has
\* closed the window of the first two and started the next.
C24_Witness ==
    /\ op = "format_transcript_text"
    /\ pc = "fmt_loop"
    /\ idx = 3
    /\ \A k \in 1..3 : transcript[k].duration = Sec(5)
    /\ transcript[3].start > transcript[2].start
    /\ transcript[2].start > transcript[1].start
    /\ window_first = 3
    /\ merged_segments =
          <<SegmentLine(transcript[1].start,
                        transcript[1].text \o <<" ">> \o transcript[2].text)>>
    /\ current_start = transcript[3].start
    /\ current_duration = Sec(5)

\* The window of cues window_first..idx is about to be emitted: by the
\* next cue, which closes it (line 491), or by the end of the fold, if it
\* has any text (line 524).
WindowEmitted ==
    /\ op = "format_transcript_text"
    /\ \/ /\ pc = "fmt_loop"
          /\ idx < Len(transcript)
          /\ HasDuration(transcript[idx + 1])
          /\ ClosesWindow(current_duration, transcript[idx + 1])
       \/ /\ pc = "fmt_done"
          /\ transcript # <<>>
          /\ current_text # <<>>

\* C25: for cues in non-decreasing start order, the last cue merged into
\* an emitted window starts at most 10 seconds after the window's first
\* cue, whose start is the window's timestamp.
C25_TenSecondWindows ==
    (WindowEmitted /\ StartsNeverDecrease(transcript)) =>
        /\ current_start = transcript[window_first].start
        /\ transcript[idx].start - current_start <= Sec(10)

---------------------------------------------------------------------------
(* Claims about the claim locator and its use by the tool.                 *)

\* The claim, lower-cased and trimmed, has no tokens.
NoTokens == Split(Strip(Lower(claim))) = <<>>

\* C27: find_claim_in_transcript never raises: the fuzzy step scores a cue
\* only with at least one word of the claim to divide by, because a claim
\* without tokens is found by the exact step in the first cue of any
\* non-empty track; the call returns a match or None.
C27_NoDivisionByZero ==
    op = "find_claim_in_transcript" =>
        /\ pc # "claim_raised"
        /\ (pc = "claim_fuzzy" /\ scan < Len(cues)) =>
              Cardinality(claim_words) >= 1
        /\ (NoTokens /\ cues # <<>>) =>
              /\ pc # "claim_fuzzy"
              /\ scan = 0
        /\ pc = "claim_done" =>
              \/ claim_match = None
              \/ {"timestamp", "timestamp_seconds", "context"}
                     \subseteq DOMAIN claim_match

\* A whitespace-only claim against the empty track with fuzzy matching:
\* the fuzzy step has run with no words and no cue to score.
C27_Witness ==
    /\ ClaimReturned
    /\ claim = <<" ", Newline>>
    /\ cues = <<>>
    /\ fuzzy_match
    /\ claim_words = {}
    /\ claim_match = None

\* Cue k is the cue the match names: its text is the context and its
\* start, cut to whole seconds, is timestamp_seconds.
MatchedCue(k) ==
    /\ cues[k].text = claim_match.context
    /\ IntSec(cues[k].start) = claim_match.timestamp_seconds

\* C28: the timestamp of every match find_claim_in_transcript returns is
\* accepted by timestamp_to_seconds and parses back to timestamp_seconds,
\* and the segment the tool selects around it with radius 30 contains the
\* matched cue.
C28_ClaimToSegment ==
    (op = "find_claim_in_transcript" /\ claim_match # None) =>
        /\ TimestampAccepted(claim_match.timestamp)
        /\ timestamp_to_seconds(claim_match.timestamp)
               = claim_match.timestamp_seconds
        /\ pc # "claim_value_error"
        /\ pc = "claim_located" =>
              /\ target_time = claim_match.timestamp_seconds
              /\ context_seconds = 30
              /\ \E k \in 1..Len(cues) :
                    /\ MatchedCue(k)
                    /\ \E i \in 1..Len(segment) : segment[i] = cues[k]

\* A fuzzy match in the second of three cues, past the hour: the segment
\* around it holds that cue alone.
C28_Witness ==
    /\ op = "find_claim_in_transcript"
    /\ pc = "claim_located"
    /\ Len(cues) = 3
    /\ CarriesScore(claim_match)
    /\ MatchedCue(2)
    /\ claim_match.timestamp = <<"1", ":", "0", "0", ":", "3", "1">>
    /\ segment = <<cues[2]>>

---------------------------------------------------------------------------
(* Claims about speaker attribution.                                       *)

\* The label is at the very start of the text, or right after the bracket
\* that opens it.
LeadingLabel(text, name) ==
    \/ StartsWith(text, name)
    \/ /\ text # <<>>
       /\ text[1] \in {"[", "("}
       /\ StartsWith(Tail(text), name)

\* C23: every cue is classified by the first of the patterns, in their
\* priority order, that matches its text.  A matched cue gets the label
\* as its speaker and loses only the leading label: its text is what
\* follows the matched prefix, trimmed, and its start and duration stay.
\* An unmatched cue passes through as it is, without a speaker.
\* "John: Hello" gives speaker "John" and text "Hello"; "Sarah: Thanks,
\* John." gives speaker "Sarah" and text "Thanks, John.".
C23_FirstMatchWins ==
    op = "identify_speakers" =>
        \A i \in 1..Len(labeled_cues) :
            LET cue == cues[i]
                out == labeled_cues[i]
                matching == Matching(cue.text, hints)
            IN  /\ matching = {} =>
                      /\ matched_by[i] = 0
                      /\ out = cue
                /\ matching # {} =>
                      LET label == PatternLabel(matched_by[i], cue.text,
                                                hints)
                      IN  /\ matched_by[i] \in matching
                          /\ \A k \in matching : matched_by[i] <= k
                          /\ out.speaker = label.speaker
                          /\ LeadingLabel(cue.text, out.speaker)
                          /\ out.text = Strip(SubSeq(cue.text,
                                                     label.matched + 1,
                                                     Len(cue.text)))
                          /\ out.start = cue.start
                          /\ out.duration = cue.duration
                /\ cue.text = TextJohnHello =>
                      /\ out.speaker = <<"J", "o", "h", "n">>
                      /\ out.text = <<"H", "e", "l", "l", "o">>
                /\ cue.text = TextSarahThanks =>
                      /\ out.speaker = <<"S", "a", "r", "a", "h">>
                      /\ out.text =
                             <<"T", "h", "a", "n", "k", "s", ",", " ", "J", "o", "h", "n", ".">>

\* "Sarah: Thanks, John." and then "Host: hi", which the name pattern and
\* the role pattern both match: the name pattern classifies it.
C23_Witness ==
    /\ op = "identify_speakers"
    /\ pc = "speakers_done"
    /\ hints = <<>>
    /\ Len(cues) = 2
    /\ cues[1].text = TextSarahThanks
    /\ labeled_cues[1].speaker = <<"S", "a", "r", "a", "h">>
    /\ Matching(cues[2].text, hints) = {2, 6}
    /\ matched_by = <<2, 2>>
    /\ labeled_cues[2].speaker = <<"H", "o", "s", "t">>

=============================================================================
